---- MODULE Spec2Model ----
(***************************************************************************)
(* Session runtime of the deep-research orchestrator.                      *)
(*                                                                         *)
(*   Spec       the session manager (research_manager.py) over the durable *)
(*              store (persistence.py): start, the execution wrapper       *)
(*              _run_graph at each of its await points, stop, delete,      *)
(*              first-use rehydration and a process restart.               *)
(*   GraphSpec  one run of the state graph (graph.py): the five nodes and  *)
(*              the two routers.                                           *)
(*   StoreSpec  the store's API called directly, each call's database work *)
(*              running in a worker thread (asyncio.to_thread).            *)
(*   RestartSpec  a manager constructed over the store a dead process      *)
(*              left, and a new session started on it.                     *)
(*   FaultSpec  Spec over a store whose appends can fail.                  *)
(*   StreamSpec  Spec with a stream_events generator observing the         *)
(*              session.                                                   *)
(*   AgentSpec  the five agents' parsers on one LLM reply.                 *)
(*   TimeoutSpec  Spec with graph.run exceeding the configured timeout.    *)
(*   ConfigSpec  the timeout _run_graph computes from the setting.         *)
(*   MemorySpec  the session memory loaded from the sessions table.        *)
(*   TableSpec  the SQL of upsert, append, save and delete on one          *)
(*              session's rows, every column kept.                         *)
(*   FinderSpec  find_sources and one execution of the finder node.        *)
(*   SourcesSpec  the finder node's executions merged into                 *)
(*              state["sources"].                                          *)
(*   WriterSpec  write_report on each of its paths.                        *)
(*   RouteSpec  POST /api/research/start on one request.                   *)
(*   CleanupSpec  cleanup_old_sessions during a session's life.            *)
(*   EventsSpec  StreamSpec with a stream opened on an unknown session id. *)
(*   GraphLiveSpec  GraphSpec with every node returning, under fairness.   *)
(*   ReportSpec  the writer node: write_report's LLM calls and how the run *)
(*              ends on the report it returns.                             *)
(*   StopSpec   start, run and stop with two stop_research calls at once.  *)
(*                                                                         *)
(* Scheduling model.  The manager runs on one asyncio event loop: a        *)
(* coroutine runs without interruption from one suspension point to the    *)
(* next, so one action is one such stretch.  The code suspends at: every   *)
(* store call (asyncio.Lock + asyncio.to_thread), awaits inside graph.run, *)
(* and `await session.task`.  The store lock is FIFO: lockq is its queue,  *)
(* the head holds the lock and its database work is in a worker thread.    *)
(* Cancelling a coroutine that holds the lock releases the lock at once    *)
(* but cannot stop the thread: the work is dropped if the thread had not   *)
(* picked it up, and otherwise finishes on its own (orphans).  A thread's  *)
(* append is two steps, the read of the next index and the insert; every   *)
(* other database work is one transaction and one step.                    *)
(***************************************************************************)
EXTENDS Integers, Sequences, FiniteSets, TLC

VARIABLES
    (* ---- durable store (persistence.py) ---- *)
    db,          \* sessions table: id -> row
    events,      \* session_events table: id -> rows in insertion order
    docs,        \* session_documents table: id -> set of document ids
    lockq,       \* SessionPersistence._lock: FIFO of calls, head holds it
    orphans,     \* calls whose database work outlived the cancelled caller
    wiped,       \* history: ids whose rows a delete has removed
    (* ---- session manager (research_manager.py) ---- *)
    initialized, \* ResearchManager._initialized
    inMap,       \* keys of ResearchManager._sessions
    sess,        \* the ResearchSession objects: state.status, stop_event, ...
    exec,        \* position of each session's executor task (_run_graph)
    cancelReq,   \* task.cancel() requested, CancelledError not yet delivered
    gev,         \* node events the graph emitted in this run
    graphOut,    \* history: what graph.run gave in this run
    starter,     \* position of the start_research call of each id
    stopper,     \* position of each stop_research call
    deleter,     \* position of the delete_session call of each id
    used,        \* session ids already allocated (uuid4: never reused)
    lastOp,      \* the manager call that returned in the last step
    (* ---- graph run (graph.py) ---- *)
    node,        \* node about to run, or "END"
    iteration,   \* state["iteration"]
    max_iterations,     \* options.max_iterations
    needs_finder_retry, \* state["needs_finder_retry"]
    finder_retry_count, \* state["finder_retry_count"]
    has_gaps,    \* state["gaps"]["has_gaps"]
    planner_runs,\* planner invocations of this run
    (* ---- direct store calls (StoreSpec) ---- *)
    calls,       \* API calls in flight: caller -> call record
    (* ---- event streams (StreamSpec) ---- *)
    obs,         \* the stream_events generator observing each session
    (* ---- agents (AgentSpec) ---- *)
    llm,         \* the last agent call: the agent, the LLM's reply, the result
    (* ---- functions applied on their own ---- *)
    timeout_seconds, \* _run_graph: the setting read and the timeout computed
    memory_context,  \* _run_graph: the sessions table read and the memory loaded
    table,           \* one session's rows with every column, and the last call
    found,           \* find_sources: the search results and the sources returned
    finder,          \* _finder_node: state["sources"] over the finder's runs
    report,          \* write_report: the findings, the LLM's reply, the report
    route,           \* POST /api/research/start: the request and its outcome
    cleanup,         \* cleanup_old_sessions: the last call's inputs and result
    writing          \* write_report's LLM calls and what the run made of the report

unitVars == <<timeout_seconds, memory_context, table, found, finder, report, route,
              cleanup, writing>>

storeVars == <<db, events, docs, wiped, lockq, orphans>>
mgrVars   == <<initialized, inMap, sess, exec, cancelReq, gev, graphOut, starter, stopper,
               deleter, used, lastOp, obs, llm, unitVars>>
graphVars == <<node, iteration, max_iterations, needs_finder_retry,
               finder_retry_count, has_gaps, planner_runs>>
\* Everything but the variables of the functions applied on their own.
coreVars == <<storeVars, initialized, inMap, sess, exec, cancelReq, gev, graphOut,
              starter, stopper, deleter, used, lastOp, obs, llm, graphVars, calls>>
vars == <<db, events, docs, wiped, lockq, orphans, initialized, inMap, sess, exec,
          cancelReq, gev, graphOut, starter, stopper, deleter, used, lastOp, node,
          iteration, max_iterations, needs_finder_retry, finder_retry_count,
          has_gaps, planner_runs, calls, obs, llm, unitVars>>

(***************************************************************************)
(* Bounds.                                                                 *)
(***************************************************************************)
MaxGraphEvents == 1   \* node events one graph run emits
MaxStoppers == 1      \* concurrent stop_research calls per session

\* Session ids.  Spec follows session 1 through its whole life, restarts
\* included; RestartSpec starts session 2 on a manager restarted over what a
\* crashed process left of session 1.
Ids == {1, 2}
First == {1}
Stoppers == 1..MaxStoppers

TerminalTypes == {"research_completed", "research_error", "research_stopped"}

(***************************************************************************)
(* Durable store: the three tables and the four synchronous workers.       *)
(***************************************************************************)
EmptyState == [report |-> FALSE, error |-> FALSE]

NoRow == [present |-> FALSE, status |-> "none", is_stopped |-> FALSE,
          state |-> EmptyState, final_report |-> FALSE, events_count |-> 0]

\* A database work: the arguments one *_sync worker is called with.  An
\* append is two statements, the SELECT of the next index and the INSERT with
\* its UPDATE: op "append" has done neither, op "insert" holds the index read.
Job(op, sid, status, is_stopped, state, etype) ==
    [op |-> op, sid |-> sid, status |-> status, is_stopped |-> is_stopped,
     state |-> state, etype |-> etype, index |-> -1]

UpsertJob(sid, status, is_stopped, state) ==
    Job("upsert", sid, status, is_stopped, state, "none")
AppendJob(sid, etype) == Job("append", sid, "none", FALSE, EmptyState, etype)
SaveJob(sid) == Job("save", sid, "none", FALSE, EmptyState, "none")
DeleteJob(sid) == Job("delete", sid, "none", FALSE, EmptyState, "none")
ReadJob(sid) == Job("read", sid, "none", FALSE, EmptyState, "none")

\* INSERT ... ON CONFLICT(session_id) DO UPDATE: a new row starts with
\* final_report_json NULL and events_count 0; an existing row keeps both.
UpsertSessionSync(rows, j) ==
    [rows EXCEPT ![j.sid] =
        IF @.present
        THEN [@ EXCEPT !.status = j.status, !.is_stopped = j.is_stopped,
                       !.state = j.state]
        ELSE [present |-> TRUE, status |-> j.status,
              is_stopped |-> j.is_stopped, state |-> j.state,
              final_report |-> FALSE, events_count |-> 0]]

MaxIndex(evs) ==
    IF evs = <<>> THEN -1
    ELSE CHOOSE m \in {evs[i].index : i \in 1..Len(evs)} :
             \A i \in 1..Len(evs) : evs[i].index <= m

\* SELECT COALESCE(MAX(event_index), -1) + 1
NextIndex(evs) == MaxIndex(evs) + 1

\* INSERT INTO session_events: no foreign key is enforced (the connection
\* never turns PRAGMA foreign_keys on), so the row need not exist.
InsertEvent(evs, etype, index) == Append(evs, [type |-> etype, index |-> index])

\* UPDATE sessions SET events_count = events_count + 1 WHERE session_id = ?
BumpEventsCount(rows, sid) ==
    [rows EXCEPT ![sid] =
        IF @.present THEN [@ EXCEPT !.events_count = @ + 1] ELSE @]

SaveFinalReportRowsStatusOnly(rows, sid) ==
    [rows EXCEPT ![sid] =
        IF @.present
        THEN [@ EXCEPT !.status = "completed", !.is_stopped = FALSE]
        ELSE @]

\* UPDATE sessions SET status='completed', final_report_json=?, is_stopped=0
SaveFinalReportRows(rows, sid) ==
    [rows EXCEPT ![sid] =
        IF @.present
        THEN [@ EXCEPT !.status = "completed", !.final_report = TRUE,
                       !.is_stopped = FALSE]
        ELSE @]

\* The two documents, ids f"{session_id}-json" and f"{session_id}-markdown",
\* INSERT ... ON CONFLICT(document_id) DO UPDATE.
SaveFinalReportDocs(dcs, sid) ==
    [dcs EXCEPT ![sid] = @ \cup {<<sid, "json">>, <<sid, "markdown">>}]

\* cursor.rowcount > 0 of DELETE FROM sessions
DeleteResult(rows, sid) == rows[sid].present

\* The effect of one database work on each table.
ApplyRows(rows, j) ==
    CASE j.op = "upsert" -> UpsertSessionSync(rows, j)
      [] j.op = "insert" -> BumpEventsCount(rows, j.sid)
      [] j.op = "save"   -> SaveFinalReportRows(rows, j.sid)
      [] j.op = "delete" -> [rows EXCEPT ![j.sid] = NoRow]
      [] OTHER -> rows

ApplyEvents(evs, j) ==
    CASE j.op = "insert" ->
            [evs EXCEPT ![j.sid] = InsertEvent(@, j.etype, j.index)]
      [] j.op = "delete" -> [evs EXCEPT ![j.sid] = <<>>]
      [] OTHER -> evs

ApplyDocs(dcs, j) ==
    CASE j.op = "save"   -> SaveFinalReportDocs(dcs, j.sid)
      [] j.op = "delete" -> [dcs EXCEPT ![j.sid] = {}]
      [] OTHER -> dcs

\* _append_event_sync, first statement: the thread reads the next index.
ReadIndex(j) == [j EXCEPT !.op = "insert", !.index = NextIndex(events[j.sid])]

\* The rest of a worker: its remaining statements and the commit.
RunJob(j) ==
    /\ db' = ApplyRows(db, j)
    /\ events' = ApplyEvents(events, j)
    /\ docs' = ApplyDocs(docs, j)
    /\ wiped' = IF j.op = "delete" THEN wiped \cup {j.sid} ELSE wiped


\* async with self._lock: join the queue; the head holds the lock.
Enq(q, co, j) == Append(q, [co |-> co, job |-> j])

Holds(co) == lockq # <<>> /\ Head(lockq).co = co
Without(q, co) == SelectSeq(q, LAMBDA e : e.co # co)

\* The thread of the call that holds the lock has only its last step left.
Ready(co) == Holds(co) /\ Head(lockq).job.op # "append"


(***************************************************************************)
(* Session manager.                                                        *)
(***************************************************************************)
NoSess == [status |-> "none", stop |-> FALSE, report |-> FALSE, error |-> FALSE]

NoOp == [op |-> "none", sid |-> 0, result |-> "none"]

\* No agent was called yet.
NoCall == [agent |-> "none", content |-> <<>>, repaired |-> <<>>,
           result |-> [raised |-> FALSE,
                       value |-> [kind |-> "none", search_queries |-> 0,
                                  key_facts |-> 0, has_gaps |-> FALSE,
                                  gaps |-> 0]],
           run |-> "none"]

\* A stream_events generator not yet called: what it yielded so far (out),
\* emitted_count, the events it is iterating over, terminal_emitted.
NoStream == [pc |-> "idle", out |-> <<>>, emitted_count |-> 0, batch |-> <<>>,
             terminal_emitted |-> FALSE]
\* No timeout computed yet.
NoTimeout == [minutes |-> 0, seconds |-> 0]

\* No session memory loaded yet.
NoMemory == [loaded |-> FALSE, rows |-> <<>>, session_id |-> 0,
             include_session_memory |-> FALSE, session_memory_limit |-> 0,
             session_memory |-> <<>>]

\* No row in the sessions table, and the tables of a session nobody wrote.
NoTableRow == [present |-> FALSE, status |-> "none", created_at |-> 0,
               updated_at |-> 0, is_stopped |-> FALSE, snapshot |-> "none",
               final_report |-> FALSE, events_count |-> 0]

NoTable == [row |-> NoTableRow, events |-> 0, docs |-> FALSE,
            last |-> "none", input |-> NoTableRow, repeated |-> FALSE]

\* find_sources not called; the finder node not run.
NoFound == [called |-> FALSE, results |-> <<>>, max_sources_total |-> 0,
            enforce_diversity |-> FALSE, sources |-> <<>>]

NoFinder == [runs |-> 0, max_sources |-> 0, max_sources_per_question |-> 0,
             source_diversity |-> FALSE, stored |-> <<>>, sources |-> <<>>]

\* write_report not called.
NoReport == [written |-> FALSE, findings |-> <<>>,
             reply |-> [executive_summary |-> <<>>, content |-> <<>>,
                        sources_used |-> <<>>],
             final_report |-> [path |-> "none", executive_summary |-> <<>>,
                               content |-> <<>>, sources_used |-> <<>>]]

\* No request posted to /api/research/start.
NoRoute == [posted |-> FALSE, raw |-> [lead |-> 0, core |-> 0, trail |-> 0],
            status_code |-> 0, started |-> FALSE,
            query |-> [lead |-> 0, core |-> 0, trail |-> 0]]

\* cleanup_old_sessions not called.
NoCleanup == [calls |-> 0, now |-> [day |-> 0, hour |-> 0], max_age_hours |-> 0,
              cached |-> {}, running |-> {}, updated_at |-> <<>>, removed |-> 0]

\* write_report not called for the run.
NoWriting == [called |-> FALSE, findings |-> 0,
              first |-> [raises |-> FALSE, content |-> <<>>],
              repair |-> [raises |-> FALSE, content |-> <<>>],
              members |-> "none", llm_calls |-> 0, repair_called |-> FALSE,
              final_report |-> [kind |-> "none", error |-> FALSE],
              status |-> "none", terminal |-> "none"]

\* None of the functions applied on their own has been called.
UnitsIdle ==
    /\ timeout_seconds = NoTimeout
    /\ memory_context = NoMemory
    /\ table = NoTable
    /\ found = NoFound
    /\ finder = NoFinder
    /\ report = NoReport
    /\ route = NoRoute
    /\ cleanup = NoCleanup
    /\ writing = NoWriting

Returned(op, s, result) == [op |-> op, sid |-> s, result |-> result]

ExecCo(s) == <<"exec", s, 0>>
StartCo(s) == <<"start", s, 0>>
StopCo(s, k) == <<"stop", s, k>>
DeleteCo(s) == <<"delete", s, 0>>

\* ResearchSession.is_running: task is not None and not task.done()
IsRunning(s) == exec[s] \notin {"none", "done"}

\* ResearchSession.is_stopped
IsStopped(ss) == ss.stop \/ ss.status = "stopped"

\* _persist_snapshot: the upsert of dict(session.state) under `status`
PersistSnapshot(s, ss, status, is_stopped) ==
    UpsertJob(s, status, is_stopped, [report |-> ss.report, error |-> ss.error])

\* uuid4: an id no session ever had
FreshId(s) == s \notin used /\ \A t \in Ids \ used : s <= t

(* ---- _ensure_initialized: rehydration on first use ------------------- *)
RestoredStatusKept(row) == row.status

RestoredStatus(row) == IF row.status = "running" THEN "stopped" ELSE row.status

Rehydrate(row) ==
    [status |-> RestoredStatus(row),
     stop   |-> row.is_stopped \/ RestoredStatus(row) = "stopped",
     report |-> row.state.report \/ row.final_report,
     error  |-> row.state.error]

\* No other call proceeds before this returns (each awaits it first, on the
\* manager lock), so the load is one step.
Initialize ==
    /\ ~initialized
    /\ lockq = <<>>
    /\ initialized' = TRUE
    /\ sess' = [s \in Ids |-> IF db[s].present THEN Rehydrate(db[s]) ELSE NoSess]
    /\ inMap' = {s \in Ids : db[s].present}
    /\ lastOp' = NoOp
    /\ UNCHANGED <<db, events, docs, wiped, lockq, orphans, exec, cancelReq, gev, graphOut,
                   starter, stopper, deleter, used, graphVars, calls, obs, llm, unitVars>>

(* ---- start_research --------------------------------------------------- *)
StartCall(s) ==
    /\ initialized
    /\ FreshId(s)
    /\ \A t \in Ids : starter[t] = "idle"          \* async with self._lock
    /\ used' = used \cup {s}
    /\ sess' = [sess EXCEPT ![s] = [status |-> "running", stop |-> FALSE,
                                    report |-> FALSE, error |-> FALSE]]
    /\ inMap' = inMap \cup {s}
    /\ starter' = [starter EXCEPT ![s] = "upsert"]
    /\ lockq' = Enq(lockq, StartCo(s), UpsertJob(s, "running", FALSE, EmptyState))
    /\ lastOp' = NoOp
    /\ UNCHANGED <<db, events, docs, wiped, orphans, initialized, exec, cancelReq,
                   gev, graphOut, stopper, deleter, graphVars, calls, obs, llm, unitVars>>

\* The upsert returned: asyncio.create_task(self._run_graph(...)), return.
StartComplete(s) ==
    /\ starter[s] = "upsert"
    /\ Ready(StartCo(s))
    /\ RunJob(Head(lockq).job)
    /\ lockq' = Tail(lockq)
    /\ starter' = [starter EXCEPT ![s] = "idle"]
    /\ exec' = [exec EXCEPT ![s] = "created"]
    /\ gev' = [gev EXCEPT ![s] = 0]
    /\ graphOut' = [graphOut EXCEPT ![s] = "none"]
    /\ lastOp' = Returned("start", s, "started")
    /\ UNCHANGED <<orphans, initialized, inMap, sess, cancelReq, stopper,
                   deleter, used, graphVars, calls, obs, llm, unitVars>>

(* ---- _run_graph: the executor task ------------------------------------ *)
\* Outcomes of `await graph.run(...)`: a state with a report, a state without
\* one, an error state, a state marked stopped, or an exception.
\* ("timeout" is the error state run() builds when wait_for expires.)
GraphOutcomes == {"report", "noreport", "error", "stopped", "raise"}

GraphResult(outcome) ==
    CASE outcome = "report"   -> [status |-> "completed", report |-> TRUE,  error |-> FALSE]
      [] outcome = "noreport" -> [status |-> "completed", report |-> FALSE, error |-> FALSE]
      [] outcome = "error"    -> [status |-> "error",     report |-> FALSE, error |-> TRUE]
      [] outcome = "timeout"  -> [status |-> "error",     report |-> FALSE, error |-> TRUE]
      [] OTHER                -> [status |-> "stopped",   report |-> FALSE, error |-> FALSE]

\* The task's first step: the optional memory read, else research_started.
ExecFirstStep(s) ==
    /\ exec[s] = "created"
    /\ ~cancelReq[s]
    /\ \E include_session_memory \in BOOLEAN :
          IF include_session_memory
          THEN /\ exec' = [exec EXCEPT ![s] = "memory"]
               /\ lockq' = Enq(lockq, ExecCo(s), ReadJob(s))
          ELSE /\ exec' = [exec EXCEPT ![s] = "started"]
               /\ lockq' = Enq(lockq, ExecCo(s), AppendJob(s, "research_started"))
    /\ lastOp' = NoOp
    /\ UNCHANGED <<db, events, docs, wiped, orphans, initialized, inMap, sess,
                   cancelReq, gev, graphOut, starter, stopper, deleter, used, graphVars, calls, obs, llm, unitVars>>

AfterAwaitNoErrorEvent(pc) ==
    CASE pc = "memory"            -> "started"
      [] pc = "started"           -> "graph"
      [] pc = "node_emit"         -> "graph"
      [] pc = "stopped_persist"   -> "stopped_emit"
      [] pc = "completed_persist" -> "save_report"
      [] pc = "save_report"       -> "completed_emit"
      [] pc = "cancel_persist"    -> "cancel_emit"
      [] pc = "exc_persist"       -> "exc_emit"
      [] OTHER                    -> "done"

\* Where the wrapper goes when the store call it awaits returns.
AfterAwait(pc) ==
    CASE pc = "memory"            -> "started"
      [] pc = "started"           -> "graph"
      [] pc = "node_emit"         -> "graph"
      [] pc = "stopped_persist"   -> "stopped_emit"
      [] pc = "error_persist"     -> "error_emit"
      [] pc = "completed_persist" -> "save_report"
      [] pc = "save_report"       -> "completed_emit"
      [] pc = "cancel_persist"    -> "cancel_emit"
      [] pc = "exc_persist"       -> "exc_emit"
      [] OTHER                    -> "done"

\* The store call the wrapper makes on arriving at `pc`.
CallAt(s, pc) ==
    CASE pc = "started"        -> AppendJob(s, "research_started")
      [] pc = "stopped_emit"   -> AppendJob(s, "research_stopped")
      [] pc = "error_emit"     -> AppendJob(s, "research_error")
      [] pc = "save_report"    -> SaveJob(s)
      [] pc = "completed_emit" -> AppendJob(s, "research_completed")
      [] pc = "cancel_emit"    -> AppendJob(s, "research_stopped")
      [] pc = "exc_emit"       -> AppendJob(s, "research_error")
      [] OTHER                 -> ReadJob(s)

Awaiting == {"memory", "started", "node_emit", "stopped_persist", "stopped_emit",
             "error_persist", "error_emit", "completed_persist", "save_report",
             "completed_emit", "cancel_persist", "cancel_emit", "exc_persist",
             "exc_emit"}

\* The awaited store call returns and the wrapper runs to its next await.
ExecComplete(s) ==
    /\ exec[s] \in Awaiting
    /\ Ready(ExecCo(s))
    /\ ~cancelReq[s]
    /\ RunJob(Head(lockq).job)
    /\ LET next == AfterAwait(exec[s])
       IN /\ exec' = [exec EXCEPT ![s] = next]
          /\ lockq' = IF next \in Awaiting
                      THEN Enq(Tail(lockq), ExecCo(s), CallAt(s, next))
                      ELSE Tail(lockq)
    /\ lastOp' = NoOp
    /\ UNCHANGED <<orphans, initialized, inMap, sess, cancelReq, gev, graphOut, starter,
                   stopper, deleter, used, graphVars, calls, obs, llm, unitVars>>

\* Inside graph.run a node emits a progress event through emit_from_graph.
GraphEmit(s) ==
    /\ exec[s] = "graph"
    /\ ~cancelReq[s]
    /\ gev[s] < MaxGraphEvents
    /\ gev' = [gev EXCEPT ![s] = @ + 1]
    /\ UNCHANGED graphOut
    /\ exec' = [exec EXCEPT ![s] = "node_emit"]
    /\ lockq' = Enq(lockq, ExecCo(s), AppendJob(s, "node"))
    /\ lastOp' = NoOp
    /\ UNCHANGED <<db, events, docs, wiped, orphans, initialized, inMap, sess,
                   cancelReq, starter, stopper, deleter, used, graphVars, calls, obs, llm, unitVars>>

ClassifyByStatus(ss, outcome) ==
    IF outcome = "raise"
    THEN [pc |-> "exc_persist",
          ss |-> [ss EXCEPT !.status = "error", !.error = TRUE]]
    ELSE LET r == GraphResult(outcome)
             st == [ss EXCEPT !.status = r.status, !.report = r.report,
                              !.error = r.error]
         IN IF IsStopped(st)
            THEN [pc |-> "stopped_persist", ss |-> [st EXCEPT !.status = "stopped"]]
            ELSE IF r.status = "error"
            THEN [pc |-> "error_persist",
                  ss |-> [st EXCEPT !.status = "error", !.error = TRUE]]
            ELSE [pc |-> "completed_persist",
                  ss |-> [st EXCEPT !.status = "completed"]]

\* Lines 182-221 and 256-261: classify what graph.run gave.
Classify(ss, outcome) ==
    IF outcome = "raise"
    THEN [pc |-> "exc_persist",
          ss |-> [ss EXCEPT !.status = "error", !.error = TRUE]]
    ELSE LET r == GraphResult(outcome)
             st == [ss EXCEPT !.status = r.status, !.report = r.report,
                              !.error = r.error]
         IN IF IsStopped(st)
            THEN [pc |-> "stopped_persist", ss |-> [st EXCEPT !.status = "stopped"]]
            ELSE IF r.status = "error" \/ ~r.report
            THEN [pc |-> "error_persist",
                  ss |-> [st EXCEPT !.status = "error", !.error = TRUE]]
            ELSE [pc |-> "completed_persist",
                  ss |-> [st EXCEPT !.status = "completed"]]

GraphReturn(s) ==
    /\ exec[s] = "graph"
    /\ ~cancelReq[s]
    /\ \E outcome \in GraphOutcomes :
          LET c == Classify(sess[s], outcome)
          IN /\ sess' = [sess EXCEPT ![s] = c.ss]
             /\ exec' = [exec EXCEPT ![s] = c.pc]
             /\ lockq' = Enq(lockq, ExecCo(s),
                             PersistSnapshot(s, c.ss, c.ss.status,
                                             c.pc = "stopped_persist"))
             /\ graphOut' = [graphOut EXCEPT ![s] = outcome]
    /\ lastOp' = NoOp
    /\ UNCHANGED <<db, events, docs, wiped, orphans, initialized, inMap, cancelReq,
                   gev, starter, stopper, deleter, used, graphVars, calls, obs, llm, unitVars>>

\* The database work of a cancelled caller: if the caller held the lock, its
\* thread either never picked the work up or goes on without it.
Abandon(co, runs) ==
    IF Holds(co) /\ (runs \/ Head(lockq).job.op = "insert")
                 /\ Head(lockq).job.op # "read"
    THEN orphans \cup {Head(lockq)}
    ELSE orphans

InHandler == {"cancel_persist", "cancel_emit", "exc_persist", "exc_emit"}

\* CancelledError is thrown into the task at the await it is suspended on.
\*   not started yet: the coroutine body never runs;
\*   inside `try`: except asyncio.CancelledError (lines 242-255);
\*   inside an except block: the error leaves _run_graph.
ExecCancelled(s) ==
    /\ IsRunning(s)
    /\ cancelReq[s]
    /\ cancelReq' = [cancelReq EXCEPT ![s] = FALSE]
    /\ \E runs \in BOOLEAN : orphans' = Abandon(ExecCo(s), runs)
    /\ IF exec[s] = "created" \/ exec[s] \in InHandler
       THEN /\ exec' = [exec EXCEPT ![s] = "done"]
            /\ lockq' = Without(lockq, ExecCo(s))
            /\ sess' = sess
       ELSE LET ss == [sess[s] EXCEPT !.status = "stopped"]
            IN /\ exec' = [exec EXCEPT ![s] = "cancel_persist"]
               /\ sess' = [sess EXCEPT ![s] = ss]
               /\ lockq' = Enq(Without(lockq, ExecCo(s)), ExecCo(s),
                               PersistSnapshot(s, ss, "stopped", TRUE))
    /\ lastOp' = NoOp
    /\ UNCHANGED <<db, events, docs, wiped, initialized, inMap, gev, graphOut, starter,
                   stopper, deleter, used, graphVars, calls, obs, llm, unitVars>>

\* The thread of the lock holder does the SELECT of its append.
HeadRead ==
    /\ lockq # <<>>
    /\ Head(lockq).job.op = "append"
    /\ lockq' = [lockq EXCEPT ![1].job = ReadIndex(@)]
    /\ lastOp' = NoOp
    /\ UNCHANGED <<db, events, docs, wiped, orphans, initialized, inMap, sess,
                   exec, cancelReq, gev, graphOut, starter, stopper, deleter, used,
                   graphVars, calls, obs, llm, unitVars>>

\* A thread whose caller was cancelled does the SELECT of its append.
OrphanRead ==
    /\ \E e \in orphans :
          /\ e.job.op = "append"
          /\ orphans' = (orphans \ {e}) \cup {[e EXCEPT !.job = ReadIndex(@)]}
    /\ lastOp' = NoOp
    /\ UNCHANGED <<db, events, docs, wiped, lockq, initialized, inMap, sess,
                   exec, cancelReq, gev, graphOut, starter, stopper, deleter, used,
                   graphVars, calls, obs, llm, unitVars>>

\* A worker thread finishes the work its cancelled caller left behind.
OrphanRun ==
    /\ \E e \in orphans :
          /\ e.job.op # "append"
          /\ RunJob(e.job)
          /\ orphans' = orphans \ {e}
    /\ lastOp' = NoOp
    /\ UNCHANGED <<lockq, initialized, inMap, sess, exec, cancelReq, gev, graphOut,
                   starter, stopper, deleter, used, graphVars, calls, obs, llm, unitVars>>


(* ---- stop_research ------------------------------------------------------ *)
\* Lines 416-429: unknown or not running -> False; else set the stop flag,
\* cancel the task and await it.
StopRefusedUnknownOnly(s) == s \notin inMap

\* Lines 417-424: `if not session` and `if not session.is_running()`
StopRefused(s) == s \notin inMap \/ ~IsRunning(s)

StopCall(s, k) ==
    /\ initialized
    /\ stopper[s][k] = "idle"
    /\ IF ~StopRefused(s)
       THEN /\ sess' = [sess EXCEPT ![s].stop = TRUE]
            /\ cancelReq' = [cancelReq EXCEPT ![s] = TRUE]
            /\ stopper' = [stopper EXCEPT ![s][k] = "await"]
            /\ lastOp' = NoOp
       ELSE /\ lastOp' = Returned("stop", s, "false")
            /\ UNCHANGED <<sess, cancelReq, stopper>>
    /\ UNCHANGED <<db, events, docs, wiped, lockq, orphans, initialized, inMap, exec,
                   gev, graphOut, starter, deleter, used, graphVars, calls, obs, llm, unitVars>>

\* Lines 429-435: the awaited task is done; write the stopped snapshot.
StopResume(s, k) ==
    /\ stopper[s][k] = "await"
    /\ exec[s] = "done"
    /\ LET ss == [sess[s] EXCEPT !.status = "stopped"]
       IN /\ sess' = [sess EXCEPT ![s] = ss]
          /\ lockq' = Enq(lockq, StopCo(s, k), PersistSnapshot(s, ss, "stopped", TRUE))
    /\ stopper' = [stopper EXCEPT ![s][k] = "persist"]
    /\ lastOp' = NoOp
    /\ UNCHANGED <<db, events, docs, wiped, orphans, initialized, inMap, exec,
                   cancelReq, gev, graphOut, starter, deleter, used, graphVars, calls, obs, llm, unitVars>>

StopComplete(s, k) ==
    /\ stopper[s][k] = "persist"
    /\ Ready(StopCo(s, k))
    /\ RunJob(Head(lockq).job)
    /\ lockq' = Tail(lockq)
    /\ stopper' = [stopper EXCEPT ![s][k] = "idle"]
    /\ lastOp' = Returned("stop", s, "true")
    /\ UNCHANGED <<orphans, initialized, inMap, sess, exec, cancelReq, gev, graphOut,
                   starter, deleter, used, graphVars, calls, obs, llm, unitVars>>

(* ---- delete_session ----------------------------------------------------- *)
\* Lines 495-500: refuse a running session, else delete in the store.
DeleteRefusedNever(s) == FALSE

\* Lines 496-497: `if session and session.is_running()`
DeleteRefused(s) == s \in inMap /\ IsRunning(s)

DeleteCall(s) ==
    /\ initialized
    /\ deleter[s] = "idle"
    /\ IF DeleteRefused(s)
       THEN /\ lastOp' = Returned("delete", s, "running")
            /\ UNCHANGED <<lockq, deleter>>
       ELSE /\ lockq' = Enq(lockq, DeleteCo(s), DeleteJob(s))
            /\ deleter' = [deleter EXCEPT ![s] = "delete"]
            /\ lastOp' = NoOp
    /\ UNCHANGED <<db, events, docs, wiped, orphans, initialized, inMap, sess, exec,
                   cancelReq, gev, graphOut, starter, stopper, used, graphVars, calls, obs, llm, unitVars>>

\* Lines 500-506: not_found leaves the map alone; deleted drops the entry.
DeleteComplete(s) ==
    /\ deleter[s] = "delete"
    /\ Ready(DeleteCo(s))
    /\ RunJob(Head(lockq).job)
    /\ lockq' = Tail(lockq)
    /\ deleter' = [deleter EXCEPT ![s] = "idle"]
    /\ IF DeleteResult(db, s)
       THEN /\ inMap' = inMap \ {s}
            /\ lastOp' = Returned("delete", s, "deleted")
       ELSE /\ inMap' = inMap
            /\ lastOp' = Returned("delete", s, "not_found")
    /\ UNCHANGED <<orphans, initialized, sess, exec, cancelReq, gev, graphOut, starter,
                   stopper, used, graphVars, calls, obs, llm, unitVars>>

(* ---- process restart ---------------------------------------------------- *)
\* The process dies: every task, lock and thread is gone, the store stays.
Crash ==
    /\ initialized
    /\ initialized' = FALSE
    /\ inMap' = {}
    /\ sess' = [s \in Ids |-> NoSess]
    /\ exec' = [s \in Ids |-> "none"]
    /\ cancelReq' = [s \in Ids |-> FALSE]
    /\ gev' = [s \in Ids |-> 0]
    /\ graphOut' = [s \in Ids |-> "none"]
    /\ starter' = [s \in Ids |-> "idle"]
    /\ stopper' = [s \in Ids |-> [k \in Stoppers |-> "idle"]]
    /\ deleter' = [s \in Ids |-> "idle"]
    /\ lockq' = <<>>
    /\ orphans' = {}
    /\ obs' = [s \in Ids |-> NoStream]
    /\ lastOp' = NoOp
    /\ UNCHANGED <<db, events, docs, wiped, used, graphVars, calls, llm, unitVars>>

(* ---- the session-manager specification --------------------------------- *)
GraphIdle ==
    /\ node = "END" /\ iteration = 0 /\ max_iterations = 1
    /\ needs_finder_retry = FALSE /\ finder_retry_count = 0
    /\ has_gaps = FALSE /\ planner_runs = 0

StoreEmpty ==
    /\ db = [s \in Ids |-> NoRow]
    /\ events = [s \in Ids |-> <<>>]
    /\ docs = [s \in Ids |-> {}]
    /\ wiped = {}
    /\ lockq = <<>>
    /\ orphans = {}

\* A manager just constructed, in a world where the ids of u were handed out
\* and stop_research has the callers `callers`.
MgrStart(u, callers) ==
    /\ initialized = FALSE
    /\ inMap = {}
    /\ sess = [s \in Ids |-> NoSess]
    /\ exec = [s \in Ids |-> "none"]
    /\ cancelReq = [s \in Ids |-> FALSE]
    /\ gev = [s \in Ids |-> 0]
    /\ graphOut = [s \in Ids |-> "none"]
    /\ starter = [s \in Ids |-> "idle"]
    /\ stopper = [s \in Ids |-> [k \in callers |-> "idle"]]
    /\ deleter = [s \in Ids |-> "idle"]
    /\ used = u
    /\ lastOp = NoOp
    /\ obs = [s \in Ids |-> NoStream]
    /\ llm = NoCall
    /\ UnitsIdle

MgrNew(u) == MgrStart(u, Stoppers)

MgrFresh == MgrNew({})

Init == StoreEmpty /\ MgrFresh /\ GraphIdle /\ calls = <<>>

Next ==
    \/ Initialize
    \/ \E s \in First : StartCall(s)
    \/ \E s \in First : StartComplete(s)
    \/ \E s \in First : ExecFirstStep(s)
    \/ \E s \in First : ExecComplete(s)
    \/ \E s \in First : GraphEmit(s)
    \/ \E s \in First : GraphReturn(s)
    \/ \E s \in First : ExecCancelled(s)
    \/ HeadRead
    \/ OrphanRead
    \/ OrphanRun
    \/ \E s \in First, k \in Stoppers : StopCall(s, k)
    \/ \E s \in First, k \in Stoppers : StopResume(s, k)
    \/ \E s \in First, k \in Stoppers : StopComplete(s, k)
    \/ \E s \in First : DeleteCall(s)
    \/ \E s \in First : DeleteComplete(s)
    \/ Crash

Spec == Init /\ [][Next]_vars

(***************************************************************************)
(* One run of the state graph (graph.py).  A step is one node or one       *)
(* router; the run ends at END or with the error result of run().          *)
(***************************************************************************)
MinIterations == 1     \* ResearchOptions.max_iterations, ge
MaxIterations == 10    \* ResearchOptions.max_iterations, le
MaxFinderRetries == 2  \* _summarizer_router: retry_count < 2

\* create_initial_state, entry point "planner"
GraphStart ==
    /\ node = "planner"
    /\ iteration = 0
    /\ max_iterations \in MinIterations..MaxIterations
    /\ needs_finder_retry = FALSE
    /\ finder_retry_count = 0
    /\ has_gaps = FALSE
    /\ planner_runs = 0

\* _planner_node: iteration = state.get("iteration", 0) + 1
PlannerNode ==
    /\ node = "planner"
    /\ iteration' = iteration + 1
    /\ planner_runs' = planner_runs + 1
    /\ node' = "finder"
    /\ UNCHANGED <<max_iterations, needs_finder_retry, finder_retry_count,
                   has_gaps, storeVars, mgrVars, calls>>

\* _finder_node
FinderNode ==
    /\ node = "finder"
    /\ node' = "summarizer"
    /\ UNCHANGED <<iteration, max_iterations, needs_finder_retry,
                   finder_retry_count, has_gaps, planner_runs, storeVars,
                   mgrVars, calls>>

\* _summarizer_node: needs_finder_retry is set when no key fact came out of
\* a non-empty source list.
SummarizerNode ==
    /\ node = "summarizer"
    /\ \E zero_key_facts \in BOOLEAN : needs_finder_retry' = zero_key_facts
    /\ node' = "summarizer_router"
    /\ UNCHANGED <<iteration, max_iterations, finder_retry_count, has_gaps,
                   planner_runs, storeVars, mgrVars, calls>>

SummarizerRoute(needs_retry, retry_count) ==
    IF needs_retry /\ retry_count < MaxFinderRetries
    THEN "retry_finder" ELSE "continue"

\* _summarizer_router.  Its write of finder_retry_count is made from inside
\* a conditional edge, on the state the engine handed to the router: the
\* engine may keep the write or drop it.
SummarizerRouter ==
    /\ node = "summarizer_router"
    /\ IF SummarizerRoute(needs_finder_retry, finder_retry_count) = "retry_finder"
       THEN /\ \E kept \in BOOLEAN :
                   finder_retry_count' =
                       IF kept THEN finder_retry_count + 1
                       ELSE finder_retry_count
            /\ node' = "finder"
       ELSE /\ node' = "reviewer"
            /\ UNCHANGED finder_retry_count
    /\ UNCHANGED <<iteration, max_iterations, needs_finder_retry, has_gaps,
                   planner_runs, storeVars, mgrVars, calls>>

\* _reviewer_node: the gap report
ReviewerNode ==
    /\ node = "reviewer"
    /\ \E g \in BOOLEAN : has_gaps' = g
    /\ node' = "reviewer_router"
    /\ UNCHANGED <<iteration, max_iterations, needs_finder_retry,
                   finder_retry_count, planner_runs, storeVars, mgrVars,
                   calls>>

ReviewerRouteOffByOne(it, mx, gaps) ==
    IF it > mx THEN "finish"
    ELSE IF ~gaps THEN "finish"
    ELSE "continue"

ReviewerRouteIgnoresGaps(it, mx, gaps) ==
    IF it >= mx THEN "finish" ELSE "continue"

ReviewerRoute(it, mx, gaps) ==
    IF it >= mx THEN "finish"
    ELSE IF ~gaps THEN "finish"
    ELSE "continue"

\* _reviewer_router
ReviewerRouter ==
    /\ node = "reviewer_router"
    /\ node' = IF ReviewerRoute(iteration, max_iterations, has_gaps) = "continue"
               THEN "planner" ELSE "writer"
    /\ UNCHANGED <<iteration, max_iterations, needs_finder_retry,
                   finder_retry_count, has_gaps, planner_runs, storeVars,
                   mgrVars, calls>>

\* _writer_node, then the edge to END
WriterNode ==
    /\ node = "writer"
    /\ node' = "END"
    /\ UNCHANGED <<iteration, max_iterations, needs_finder_retry,
                   finder_retry_count, has_gaps, planner_runs, storeVars,
                   mgrVars, calls>>

\* run(): a timeout or an exception of any node ends the run with the
\* initial state marked "error"; the nodes' writes may or may not be on it.
RunFails ==
    /\ node \notin {"END", "ERROR"}
    /\ node' = "ERROR"
    /\ iteration' \in {0, iteration}
    /\ UNCHANGED <<max_iterations, needs_finder_retry, finder_retry_count,
                   has_gaps, planner_runs, storeVars, mgrVars, calls>>

GraphInit == StoreEmpty /\ MgrFresh /\ GraphStart /\ calls = <<>>

GraphNext ==
    \/ PlannerNode
    \/ FinderNode
    \/ SummarizerNode
    \/ SummarizerRouter
    \/ ReviewerNode
    \/ ReviewerRouter
    \/ WriterNode
    \/ RunFails

GraphSpec == GraphInit /\ [][GraphNext]_vars

(***************************************************************************)
(* The store's API called directly (persistence.py): each caller is a      *)
(* coroutine that awaits one call at a time and may be cancelled while it  *)
(* waits; a cancelled caller makes no further call.                        *)
(***************************************************************************)
MaxCallers == 2       \* coroutines calling the store
MaxStoreEvents == 2   \* events in the log when an append is called

Callers == 1..MaxCallers
CallCo(c) == <<"call", 0, c>>

\* The calls a caller chooses from, on one session id.
StoreJobs(s) ==
    {UpsertJob(s, "running", FALSE, EmptyState), AppendJob(s, "node"),
     SaveJob(s), DeleteJob(s)}

\* upsert_session / append_event / save_final_report / delete_session up to
\* `async with self._lock`
StoreCall(c) ==
    /\ calls[c] = "idle"
    /\ \E s \in First :
          \E j \in StoreJobs(s) :
             /\ j.op = "append" => Len(events[s]) < MaxStoreEvents
             /\ lockq' = Enq(lockq, CallCo(c), j)
    /\ calls' = [calls EXCEPT ![c] = "waiting"]
    /\ UNCHANGED <<db, events, docs, wiped, orphans, mgrVars, graphVars>>

\* `await asyncio.to_thread(...)` returns and the lock is released.
StoreReturn(c) ==
    /\ calls[c] = "waiting"
    /\ Ready(CallCo(c))
    /\ RunJob(Head(lockq).job)
    /\ lockq' = Tail(lockq)
    /\ calls' = [calls EXCEPT ![c] = "idle"]
    /\ UNCHANGED <<orphans, mgrVars, graphVars>>

\* The caller is cancelled while it waits for the lock or for the thread.
StoreCancel(c) ==
    /\ calls[c] = "waiting"
    /\ \E runs \in BOOLEAN : orphans' = Abandon(CallCo(c), runs)
    /\ lockq' = Without(lockq, CallCo(c))
    /\ calls' = [calls EXCEPT ![c] = "cancelled"]
    /\ UNCHANGED <<db, events, docs, wiped, mgrVars, graphVars>>

StoreInit ==
    /\ StoreEmpty /\ MgrFresh /\ GraphIdle
    /\ calls = [c \in Callers |-> "idle"]

StoreNext ==
    \/ \E c \in Callers : StoreCall(c)
    \/ \E c \in Callers : StoreReturn(c)
    \/ \E c \in Callers : StoreCancel(c)
    \/ HeadRead
    \/ OrphanRead
    \/ OrphanRun

StoreSpec == StoreInit /\ [][StoreNext]_vars

(***************************************************************************)
(* A manager constructed over the store of a process that died: session 1  *)
(* is what that process left (each case is a state Spec reaches by Crash), *)
(* session 2 is started afterwards.                                        *)
(***************************************************************************)
Event(etype, index) == [type |-> etype, index |-> index]

Row(status, is_stopped, state, final_report, events_count) ==
    [present |-> TRUE, status |-> status, is_stopped |-> is_stopped,
     state |-> state, final_report |-> final_report,
     events_count |-> events_count]

Leftovers ==
    { \* died between start_research's upsert and the first event
      [row |-> Row("running", FALSE, EmptyState, FALSE, 0),
       events |-> <<>>, docs |-> {}],
      \* died while the graph ran
      [row |-> Row("running", FALSE, EmptyState, FALSE, 1),
       events |-> <<Event("research_started", 0)>>, docs |-> {}],
      \* died after the run completed
      [row |-> Row("completed", FALSE, [report |-> TRUE, error |-> FALSE],
                   TRUE, 2),
       events |-> <<Event("research_started", 0),
                    Event("research_completed", 1)>>,
       docs |-> {<<1, "json">>, <<1, "markdown">>}],
      \* died after the run failed
      [row |-> Row("error", FALSE, [report |-> FALSE, error |-> TRUE],
                   FALSE, 2),
       events |-> <<Event("research_started", 0),
                    Event("research_error", 1)>>, docs |-> {}],
      \* died after the run was stopped
      [row |-> Row("stopped", TRUE, EmptyState, FALSE, 2),
       events |-> <<Event("research_started", 0),
                    Event("research_stopped", 1)>>, docs |-> {}] }

RestartInit ==
    /\ \E l \in Leftovers :
          /\ db = [s \in Ids |-> IF s \in First THEN l.row ELSE NoRow]
          /\ events = [s \in Ids |-> IF s \in First THEN l.events ELSE <<>>]
          /\ docs = [s \in Ids |-> IF s \in First THEN l.docs ELSE {}]
    /\ wiped = {}
    /\ lockq = <<>>
    /\ orphans = {}
    /\ MgrNew(First)
    /\ GraphIdle
    /\ calls = <<>>

\* Concurrent stop_research calls are Spec's subject; here each session
\* has one at a time.
OneStopper == {1}

RestartNext ==
    \/ Initialize
    \/ \E s \in Ids : StartCall(s)
    \/ \E s \in Ids : StartComplete(s)
    \/ \E s \in Ids : ExecFirstStep(s)
    \/ \E s \in Ids : ExecComplete(s)
    \/ \E s \in Ids : GraphEmit(s)
    \/ \E s \in Ids : GraphReturn(s)
    \/ \E s \in Ids : ExecCancelled(s)
    \/ HeadRead
    \/ OrphanRead
    \/ OrphanRun
    \/ \E s \in Ids, k \in OneStopper : StopCall(s, k)
    \/ \E s \in Ids, k \in OneStopper : StopResume(s, k)
    \/ \E s \in Ids, k \in OneStopper : StopComplete(s, k)
    \/ \E s \in Ids : DeleteCall(s)
    \/ \E s \in Ids : DeleteComplete(s)

RestartSpec == RestartInit /\ [][RestartNext]_vars

(***************************************************************************)
(* The session manager over a store whose appends can fail (sqlite3.Error  *)
(* out of _append_event_sync: nothing is committed).  _emit_event is the   *)
(* one caller that catches the failure and goes on.                        *)
(***************************************************************************)
\* _emit_event, `except Exception`: the append raised, the error is logged
\* and the wrapper runs on to its next await.
ExecAppendFails(s) ==
    /\ exec[s] \in Awaiting
    /\ Holds(ExecCo(s))
    /\ Head(lockq).job.op \in {"append", "insert"}
    /\ ~cancelReq[s]
    /\ LET next == AfterAwait(exec[s])
       IN /\ exec' = [exec EXCEPT ![s] = next]
          /\ lockq' = IF next \in Awaiting
                      THEN Enq(Tail(lockq), ExecCo(s), CallAt(s, next))
                      ELSE Tail(lockq)
    /\ lastOp' = NoOp
    /\ UNCHANGED <<db, events, docs, wiped, orphans, initialized, inMap, sess,
                   cancelReq, gev, graphOut, starter, stopper, deleter, used, graphVars,
                   calls, obs, llm, unitVars>>

FaultNext ==
    \/ Initialize
    \/ \E s \in First : StartCall(s)
    \/ \E s \in First : StartComplete(s)
    \/ \E s \in First : ExecFirstStep(s)
    \/ \E s \in First : ExecComplete(s)
    \/ \E s \in First : ExecAppendFails(s)
    \/ \E s \in First : GraphEmit(s)
    \/ \E s \in First : GraphReturn(s)
    \/ \E s \in First : ExecCancelled(s)
    \/ HeadRead
    \/ OrphanRead
    \/ OrphanRun
    \/ \E s \in First, k \in Stoppers : StopCall(s, k)
    \/ \E s \in First, k \in Stoppers : StopResume(s, k)
    \/ \E s \in First, k \in Stoppers : StopComplete(s, k)
    \/ \E s \in First : DeleteCall(s)
    \/ \E s \in First : DeleteComplete(s)
    \/ Crash

FaultSpec == Init /\ [][FaultNext]_vars

(***************************************************************************)
(* Event streams: one stream_events generator per session next to the      *)
(* session manager.  The generator suspends at every yield and at every    *)
(* await; a step is the stretch between two of them.  Heartbeats are       *)
(* yielded but not recorded in `out`.                                      *)
(***************************************************************************)
ObsCo(s) == <<"stream", s, 0>>

\* What the generator yields that is not a row of the log.
Synthesized(etype) == [type |-> etype, index |-> -1]

\* First row with the least event_index.
FirstLeast(evs) ==
    CHOOSE i \in 1..Len(evs) :
        /\ \A k \in 1..Len(evs) : evs[i].index <= evs[k].index
        /\ \A k \in 1..(i - 1) : evs[k].index # evs[i].index

RemoveAt(evs, i) == SubSeq(evs, 1, i - 1) \o SubSeq(evs, i + 1, Len(evs))

\* _list_events_sync: SELECT ... ORDER BY event_index ASC (rows of equal
\* index in insertion order, as the index scan returns them).
RECURSIVE ListEventsSync(_)
ListEventsSync(evs) ==
    IF evs = <<>> THEN <<>>
    ELSE LET i == FirstLeast(evs)
         IN <<evs[i]>> \o ListEventsSync(RemoveAt(evs, i))

\* Lines 338-362: the terminal event the replay branch makes up.
ReplayTerminal(ss) ==
    IF ss.report THEN "research_completed"
    ELSE IF ss.status = "error" THEN "research_error"
    ELSE IF IsStopped(ss) THEN "research_stopped"
    ELSE "none"

\* Lines 379-404: the terminal event the polling branch makes up.
PollTerminal(ss) ==
    IF ss.status = "error" THEN "research_error"
    ELSE IF IsStopped(ss) THEN "research_stopped"
    ELSE IF ss.report THEN "research_completed"
    ELSE "none"

\* The generator yields the event it made up, if any, and returns.
Close(o, etype) ==
    [o EXCEPT !.pc = "closed",
              !.out = IF etype = "none" THEN @ ELSE Append(@, Synthesized(etype))]

\* Lines 310-325: a known session; yield `connected`, call list_events.
StreamConnect(s) ==
    /\ initialized
    /\ s \in inMap
    /\ obs[s].pc = "idle"
    /\ obs' = [obs EXCEPT ![s] = [@ EXCEPT !.pc = "list",
                                           !.out = <<Synthesized("connected")>>]]
    /\ lockq' = Enq(lockq, ObsCo(s), ReadJob(s))
    /\ lastOp' = NoOp
    /\ UNCHANGED <<db, events, docs, wiped, orphans, initialized, inMap, sess, exec,
                   cancelReq, gev, graphOut, starter, stopper, deleter, used,
                   graphVars, calls, llm, unitVars>>

\* Lines 334-366: after the replay a session that is not running ends the
\* stream, a running one sends the generator to sleep.
AfterReplay(o, s) ==
    IF IsRunning(s) THEN [o EXCEPT !.pc = "sleep"]
    ELSE IF o.terminal_emitted THEN Close(o, "none")
    ELSE Close(o, ReplayTerminal(sess[s]))

\* Lines 325-327: list_events returned the log to replay; with nothing to
\* replay the generator goes on without suspending.
StreamListed(s) ==
    /\ obs[s].pc = "list"
    /\ Ready(ObsCo(s))
    /\ LET persisted_events == ListEventsSync(events[s])
           o == [obs[s] EXCEPT !.pc = "replay",
                               !.batch = persisted_events,
                               !.emitted_count = Len(persisted_events)]
       IN obs' = [obs EXCEPT ![s] = IF persisted_events = <<>>
                                    THEN AfterReplay(o, s) ELSE o]
    /\ lockq' = Tail(lockq)
    /\ lastOp' = NoOp
    /\ UNCHANGED <<db, events, docs, wiped, orphans, initialized, inMap, sess, exec,
                   cancelReq, gev, graphOut, starter, stopper, deleter, used,
                   graphVars, calls, llm, unitVars>>

\* Lines 328-332: yield the next replayed event.
StreamReplayYield(s) ==
    /\ obs[s].pc = "replay"
    /\ obs[s].batch # <<>>
    /\ LET event == Head(obs[s].batch)
       IN obs' = [obs EXCEPT ![s] =
                     [@ EXCEPT !.out = Append(@, event),
                               !.batch = Tail(@),
                               !.terminal_emitted =
                                   @ \/ event.type \in TerminalTypes]]
    /\ lastOp' = NoOp
    /\ UNCHANGED <<db, events, docs, wiped, lockq, orphans, initialized, inMap, sess,
                   exec, cancelReq, gev, graphOut, starter, stopper, deleter, used,
                   graphVars, calls, llm, unitVars>>

\* The generator resumes after the last replayed event.
StreamReplayed(s) ==
    /\ obs[s].pc = "replay"
    /\ obs[s].batch = <<>>
    /\ obs' = [obs EXCEPT ![s] = AfterReplay(@, s)]
    /\ lastOp' = NoOp
    /\ UNCHANGED <<db, events, docs, wiped, lockq, orphans, initialized, inMap, sess,
                   exec, cancelReq, gev, graphOut, starter, stopper, deleter, used,
                   graphVars, calls, llm, unitVars>>

\* Lines 366-367: the sleep is over, call list_events.
StreamPoll(s) ==
    /\ obs[s].pc = "sleep"
    /\ obs' = [obs EXCEPT ![s].pc = "poll"]
    /\ lockq' = Enq(lockq, ObsCo(s), ReadJob(s))
    /\ lastOp' = NoOp
    /\ UNCHANGED <<db, events, docs, wiped, orphans, initialized, inMap, sess, exec,
                   cancelReq, gev, graphOut, starter, stopper, deleter, used,
                   graphVars, calls, llm, unitVars>>

\* Lines 367-411: list_events returned: new events to yield, or the session
\* is over, or a heartbeat.
StreamPolled(s) ==
    /\ obs[s].pc = "poll"
    /\ Ready(ObsCo(s))
    /\ LET latest_events == ListEventsSync(events[s])
           o == obs[s]
       IN obs' = [obs EXCEPT ![s] =
                     IF o.emitted_count < Len(latest_events)
                     THEN [o EXCEPT !.pc = "drain",
                                    !.batch = SubSeq(latest_events,
                                                     o.emitted_count + 1,
                                                     Len(latest_events)),
                                    !.emitted_count = Len(latest_events)]
                     ELSE IF ~IsRunning(s) THEN Close(o, PollTerminal(sess[s]))
                     ELSE [o EXCEPT !.pc = "sleep"]]
    /\ lockq' = Tail(lockq)
    /\ lastOp' = NoOp
    /\ UNCHANGED <<db, events, docs, wiped, orphans, initialized, inMap, sess, exec,
                   cancelReq, gev, graphOut, starter, stopper, deleter, used,
                   graphVars, calls, llm, unitVars>>

\* Lines 371-376: yield the next new event; a terminal one ends the stream.
StreamDrainYield(s) ==
    /\ obs[s].pc = "drain"
    /\ LET event == Head(obs[s].batch)
           rest == Tail(obs[s].batch)
       IN obs' = [obs EXCEPT ![s] =
                     [@ EXCEPT !.out = Append(@, event),
                               !.batch = rest,
                               !.pc = IF event.type \in TerminalTypes THEN "closed"
                                      ELSE IF rest = <<>> THEN "sleep"
                                      ELSE "drain"]]
    /\ lastOp' = NoOp
    /\ UNCHANGED <<db, events, docs, wiped, lockq, orphans, initialized, inMap, sess,
                   exec, cancelReq, gev, graphOut, starter, stopper, deleter, used,
                   graphVars, calls, llm, unitVars>>

StreamNext ==
    \/ Initialize
    \/ \E s \in First : StartCall(s)
    \/ \E s \in First : StartComplete(s)
    \/ \E s \in First : ExecFirstStep(s)
    \/ \E s \in First : ExecComplete(s)
    \/ \E s \in First : GraphEmit(s)
    \/ \E s \in First : GraphReturn(s)
    \/ \E s \in First : ExecCancelled(s)
    \/ HeadRead
    \/ OrphanRead
    \/ OrphanRun
    \/ \E s \in First, k \in Stoppers : StopCall(s, k)
    \/ \E s \in First, k \in Stoppers : StopResume(s, k)
    \/ \E s \in First, k \in Stoppers : StopComplete(s, k)
    \/ \E s \in First : DeleteCall(s)
    \/ \E s \in First : DeleteComplete(s)
    \/ Crash
    \/ \E s \in First : StreamConnect(s)
    \/ \E s \in First : StreamListed(s)
    \/ \E s \in First : StreamReplayYield(s)
    \/ \E s \in First : StreamReplayed(s)
    \/ \E s \in First : StreamPoll(s)
    \/ \E s \in First : StreamPolled(s)
    \/ \E s \in First : StreamDrainYield(s)

StreamSpec == Init /\ [][StreamNext]_vars

(***************************************************************************)
(* The five agents on an LLM reply.  A reply is a sequence of tokens: the  *)
(* braces, a JSON member, a comma, other text, a code fence.               *)
(***************************************************************************)
MaxContentLen == 4   \* tokens in one LLM reply

Agents == {"planner", "finder", "summarizer", "reviewer", "writer"}
Tokens == {"{", "}", "m", ",", "t", "fence"}
Contents == UNION {[1..n -> Tokens] : n \in 0..MaxContentLen}

\* What the repair pass of the writer can come back with: nothing, text, an
\* object.
Repairs == {<<>>, <<"t">>, <<"{", "m", "}">>}

\* json.loads on a string that starts with a brace: an object is a pair of
\* braces around members separated by commas.
JsonLoads(str) ==
    /\ Len(str) >= 2
    /\ str[1] = "{"
    /\ str[Len(str)] = "}"
    /\ LET inner == SubSeq(str, 2, Len(str) - 1)
       IN \/ inner = <<>>
          \/ /\ Len(inner) % 2 = 1
             /\ \A i \in 1..Len(inner) :
                   inner[i] = IF i % 2 = 1 THEN "m" ELSE ","

\* Matches of the fence pattern: a fence, a brace ... a brace, a fence.
FenceMatches(c) ==
    {p \in (1..Len(c)) \X (1..Len(c)) :
        /\ c[p[1]] = "fence"
        /\ p[1] + 1 < p[2]
        /\ c[p[1] + 1] = "{"
        /\ c[p[2]] = "}"
        /\ p[2] < Len(c)
        /\ c[p[2] + 1] = "fence"}

Least(S) == CHOOSE x \in S : \A y \in S : x <= y
Greatest(S) == CHOOSE x \in S : \A y \in S : x >= y

\* re.search with the lazy group: the leftmost fence, the nearest close.
FenceLazy(c) ==
    LET i == Least({p[1] : p \in FenceMatches(c)})
        j == Least({p[2] : p \in {q \in FenceMatches(c) : q[1] = i}})
    IN SubSeq(c, i + 1, j)

\* re.search with the greedy group: the leftmost fence, the farthest close.
FenceGreedy(c) ==
    LET i == Least({p[1] : p \in FenceMatches(c)})
        j == Greatest({p[2] : p \in {q \in FenceMatches(c) : q[1] = i}})
    IN SubSeq(c, i + 1, j)

\* content.find('{') .. content.rfind('}'); nothing when either is missing
\* or start >= end.
BraceSpan(c) ==
    LET opens == {i \in 1..Len(c) : c[i] = "{"}
        closes == {i \in 1..Len(c) : c[i] = "}"}
    IN IF opens = {} \/ closes = {} \/ Least(opens) >= Greatest(closes)
       THEN <<>>
       ELSE SubSeq(c, Least(opens), Greatest(closes))

\* The extraction shared by _parse_plan_output, _parse_search_plan,
\* _parse_summary and _parse_review.
JsonStr(c) == IF FenceMatches(c) # {} THEN FenceLazy(c) ELSE BraceSpan(c)

\* WriterAgent._extract_json_candidate
JsonCandidate(c) == IF FenceMatches(c) # {} THEN FenceGreedy(c) ELSE BraceSpan(c)

\* re.sub dropping a comma that stands before a closing brace
RECURSIVE DropTrailingCommas(_)
DropTrailingCommas(c) ==
    IF c = <<>> THEN <<>>
    ELSE IF Len(c) >= 2 /\ c[1] = "," /\ c[2] = "}"
         THEN DropTrailingCommas(Tail(c))
         ELSE <<c[1]>> \o DropTrailingCommas(Tail(c))

\* What an agent hands back.  The fields are those of the agent's default;
\* the fields of a parsed reply are the LLM's.
Value(kind, queries, facts, hg, gs) ==
    [kind |-> kind, search_queries |-> queries, key_facts |-> facts,
     has_gaps |-> hg, gaps |-> gs]

Parsed == [raised |-> FALSE, value |-> Value("parsed", 0, 0, FALSE, 0)]
Raised == [raised |-> TRUE, value |-> Value("none", 0, 0, FALSE, 0)]
Default(queries) ==
    [raised |-> FALSE, value |-> Value("default", queries, 0, FALSE, 0)]

\* PlannerAgent.plan: an empty reply raises RuntimeError, a reply without a
\* JSON object raises ValueError out of _parse_plan_output.
ParsePlanOutput(c) ==
    IF c # <<>> /\ JsonStr(c) # <<>> /\ JsonLoads(JsonStr(c)) THEN Parsed
    ELSE Raised

\* SourceFinderAgent._parse_search_plan: the default plan has one query
ParseSearchPlan(c) ==
    IF JsonStr(c) # <<>> /\ JsonLoads(JsonStr(c)) THEN Parsed ELSE Default(1)

\* SummarizerAgent._parse_summary: the default has no key facts
ParseSummary(c) ==
    IF JsonStr(c) # <<>> /\ JsonLoads(JsonStr(c)) THEN Parsed ELSE Default(0)

\* ReviewerAgent._parse_review: the default has has_gaps False and no gaps
ParseReview(c) ==
    IF JsonStr(c) # <<>> /\ JsonLoads(JsonStr(c)) THEN Parsed ELSE Default(0)

\* WriterAgent._parse_json_payload: a report, or None
ParseJsonPayload(c) ==
    /\ c # <<>>
    /\ JsonCandidate(c) # <<>>
    /\ \/ JsonLoads(JsonCandidate(c))
       \/ JsonLoads(DropTrailingCommas(JsonCandidate(c)))

\* WriterAgent.write_report: parse, else the repair pass, else the fallback
\* report made of the raw text.
WriteReport(c, repaired) ==
    IF ParseJsonPayload(c) THEN Parsed
    ELSE IF c # <<>> /\ ParseJsonPayload(repaired) THEN Parsed
    ELSE [raised |-> FALSE, value |-> Value("fallback", 0, 0, FALSE, 0)]

AgentResult(agent, c, repaired) ==
    CASE agent = "planner"    -> ParsePlanOutput(c)
      [] agent = "finder"     -> ParseSearchPlan(c)
      [] agent = "summarizer" -> ParseSummary(c)
      [] agent = "reviewer"   -> ParseReview(c)
      [] OTHER                -> WriteReport(c, repaired)

\* What an agent's exception does to the run: _summarizer_node catches it
\* per source; the other nodes let it out to run(), which returns the
\* state with status "error".
RunAfter(agent, result) ==
    IF result.raised /\ agent # "summarizer" THEN "error" ELSE "continues"

\* One agent is called and the LLM replies.
AgentCall ==
    /\ llm = NoCall
    /\ \E agent \in Agents, c \in Contents :
          \E repaired \in IF agent = "writer" THEN Repairs ELSE {<<>>} :
              LET result == AgentResult(agent, c, repaired)
              IN llm' = [agent |-> agent, content |-> c, repaired |-> repaired,
                         result |-> result, run |-> RunAfter(agent, result)]
    /\ UNCHANGED <<storeVars, initialized, inMap, sess, exec, cancelReq, gev,
                   graphOut, starter, stopper, deleter, used, lastOp, obs,
                   graphVars, calls, unitVars>>

AgentNext == AgentCall

AgentSpec == Init /\ [][AgentNext]_vars

(***************************************************************************)
(* The session manager with the timeout of graph.run.  asyncio.wait_for    *)
(* cancels the graph when the timeout expires: the node that is running is *)
(* cancelled at the await it is suspended on, which is either its own work *)
(* or the append of the event it is emitting.                              *)
(***************************************************************************)
\* graph.run, `except asyncio.TimeoutError`: the initial state comes back
\* with status "error" and the timed-out message, and the wrapper classifies
\* it.  An append the cancelled node was awaiting loses its caller.
GraphTimeout(s) ==
    /\ exec[s] \in {"graph", "node_emit"}
    /\ ~cancelReq[s]
    /\ \E runs \in BOOLEAN : orphans' = Abandon(ExecCo(s), runs)
    /\ LET c == Classify(sess[s], "timeout")
       IN /\ sess' = [sess EXCEPT ![s] = c.ss]
          /\ exec' = [exec EXCEPT ![s] = c.pc]
          /\ lockq' = Enq(Without(lockq, ExecCo(s)), ExecCo(s),
                          PersistSnapshot(s, c.ss, c.ss.status,
                                          c.pc = "stopped_persist"))
    /\ graphOut' = [graphOut EXCEPT ![s] = "timeout"]
    /\ lastOp' = NoOp
    /\ UNCHANGED <<db, events, docs, wiped, initialized, inMap, cancelReq, gev,
                   starter, stopper, deleter, used, graphVars, calls, obs, llm, unitVars>>

TimeoutNext ==
    \/ Initialize
    \/ \E s \in First : StartCall(s)
    \/ \E s \in First : StartComplete(s)
    \/ \E s \in First : ExecFirstStep(s)
    \/ \E s \in First : ExecComplete(s)
    \/ \E s \in First : GraphEmit(s)
    \/ \E s \in First : GraphReturn(s)
    \/ \E s \in First : GraphTimeout(s)
    \/ \E s \in First : ExecCancelled(s)
    \/ HeadRead
    \/ OrphanRead
    \/ OrphanRun
    \/ \E s \in First, k \in Stoppers : StopCall(s, k)
    \/ \E s \in First, k \in Stoppers : StopResume(s, k)
    \/ \E s \in First, k \in Stoppers : StopComplete(s, k)
    \/ \E s \in First : DeleteCall(s)
    \/ \E s \in First : DeleteComplete(s)
    \/ Crash

TimeoutSpec == Init /\ [][TimeoutNext]_vars

(***************************************************************************)
(* The timeout _run_graph computes from the configured setting.            *)
(***************************************************************************)
MaxMinutes == 60   \* largest |MAX_RESEARCH_TIME_MINUTES| configured

\* Values of settings.MAX_RESEARCH_TIME_MINUTES.
Minutes == -MaxMinutes..MaxMinutes

\* Python's max(a, b): b when b > a, else a.
PyMax(a, b) == IF b > a THEN b ELSE a

TimeoutSecondsNoFloor(minutes) == minutes * 60

\* timeout_seconds = max(60.0, float(MAX_RESEARCH_TIME_MINUTES) * 60.0)
TimeoutSeconds(minutes) == PyMax(60, minutes * 60)

\* _run_graph reads the setting and computes the timeout it hands graph.run.
ComputeTimeout ==
    /\ timeout_seconds = NoTimeout
    /\ \E minutes \in Minutes :
          timeout_seconds' = [minutes |-> minutes,
                              seconds |-> TimeoutSeconds(minutes)]
    /\ UNCHANGED <<coreVars, memory_context, table, found, finder, report,
                   route, cleanup, writing>>

ConfigNext == ComputeTimeout

ConfigSpec == Init /\ [][ConfigNext]_vars

(***************************************************************************)
(* The session memory _run_graph loads for a session it starts:            *)
(* get_recent_completed_reports over the sessions table.                   *)
(***************************************************************************)
MaxMemSessions == 3   \* rows of the sessions table when the memory is read
MaxMemTime == 2       \* distinct updated_at values of those rows

MemIds == 1..MaxMemSessions
MemLimits == 0..MaxMemSessions   \* options.session_memory_limit (ge=0)

\* A row of the sessions table, as far as the SELECT looks at it.
MemRows == [status : {"completed", "error"}, final_report : BOOLEAN,
            updated_at : 1..MaxMemTime]

EligibleAnyStatus(rows, exclude_session_id) ==
    {i \in DOMAIN rows : rows[i].final_report /\ i # exclude_session_id}

\* WHERE status = 'completed' AND final_report_json IS NOT NULL
\*   AND session_id != ?
Eligible(rows, exclude_session_id) ==
    {i \in DOMAIN rows : /\ rows[i].status = "completed"
                         /\ rows[i].final_report
                         /\ i # exclude_session_id}

\* The first row of ORDER BY updated_at DESC among S (equal times: in table
\* order).
Newest(rows, S) ==
    CHOOSE i \in S : \A j \in S : \/ rows[i].updated_at > rows[j].updated_at
                                  \/ /\ rows[i].updated_at = rows[j].updated_at
                                     /\ i <= j

\* ORDER BY updated_at DESC LIMIT ?
RECURSIVE OrderLimit(_, _, _)
OrderLimit(rows, S, limit) ==
    IF S = {} \/ limit = 0 THEN <<>>
    ELSE LET i == Newest(rows, S)
         IN <<i>> \o OrderLimit(rows, S \ {i}, limit - 1)

GetRecentCompletedReportsSync(rows, limit, exclude_session_id) ==
    OrderLimit(rows, Eligible(rows, exclude_session_id), limit)

\* _run_graph, lines 150-155, and graph.run's `session_memory or []`.
MemoryContext(rows, include_session_memory, session_memory_limit, sid) ==
    IF include_session_memory /\ session_memory_limit > 0
    THEN GetRecentCompletedReportsSync(rows, session_memory_limit, sid)
    ELSE <<>>

\* The executor of session sid loads its memory from a sessions table.
LoadMemory ==
    /\ ~memory_context.loaded
    /\ \E rows \in [MemIds -> MemRows], sid \in MemIds,
          include \in BOOLEAN, limit \in MemLimits :
          memory_context' =
              [loaded |-> TRUE, rows |-> rows, session_id |-> sid,
               include_session_memory |-> include,
               session_memory_limit |-> limit,
               session_memory |-> MemoryContext(rows, include, limit, sid)]
    /\ UNCHANGED <<coreVars, timeout_seconds, table, found, finder, report,
                   route, cleanup, writing>>

MemoryNext == LoadMemory

MemorySpec == Init /\ [][MemoryNext]_vars

(***************************************************************************)
(* One session's rows in the three tables with every column of the         *)
(* sessions row, under the store's statements run one after another.       *)
(***************************************************************************)
MaxTableEvents == 2   \* appends to the one session

Stamps == 1..MaxMemTime   \* created_at / updated_at values

\* The arguments of _upsert_session_sync (query, options_json and state_json
\* taken together as `snapshot`).
UpsertInputs == [status : {"running", "error"}, created_at : Stamps,
                 updated_at : Stamps, is_stopped : BOOLEAN,
                 snapshot : {"a", "b"}]

UpsertSessionSqlResetsCount(row, in) ==
    [present |-> TRUE, status |-> in.status,
     created_at |-> IF row.present THEN row.created_at ELSE in.created_at,
     updated_at |-> in.updated_at, is_stopped |-> in.is_stopped,
     snapshot |-> in.snapshot, final_report |-> row.final_report,
     events_count |-> 0]

\* INSERT INTO sessions (...) VALUES (...) ON CONFLICT(session_id) DO UPDATE
\* SET query, status, updated_at, is_stopped, options_json, state_json
UpsertSessionSql(row, in) ==
    IF row.present
    THEN [row EXCEPT !.status = in.status, !.updated_at = in.updated_at,
                     !.is_stopped = in.is_stopped, !.snapshot = in.snapshot]
    ELSE [present |-> TRUE, status |-> in.status,
          created_at |-> in.created_at, updated_at |-> in.updated_at,
          is_stopped |-> in.is_stopped, snapshot |-> in.snapshot,
          final_report |-> FALSE, events_count |-> 0]

\* upsert_session
TableUpsert ==
    /\ \E in \in UpsertInputs :
          table' = [table EXCEPT
                       !.row = UpsertSessionSql(table.row, in),
                       !.last = "upsert", !.input = in,
                       !.repeated = table.last = "upsert" /\ table.input = in]
    /\ UNCHANGED <<coreVars, timeout_seconds, memory_context, found, finder, report,
                   route, cleanup, writing>>

\* append_event: INSERT INTO session_events; UPDATE sessions SET
\* events_count = events_count + 1, updated_at = ?
TableAppend ==
    /\ table.events < MaxTableEvents
    /\ \E created_at \in Stamps :
          table' = [table EXCEPT
                       !.events = @ + 1,
                       !.row = IF @.present
                               THEN [@ EXCEPT !.events_count = @ + 1,
                                              !.updated_at = created_at]
                               ELSE @,
                       !.last = "append", !.input = NoTableRow,
                       !.repeated = FALSE]
    /\ UNCHANGED <<coreVars, timeout_seconds, memory_context, found, finder, report,
                   route, cleanup, writing>>

\* save_final_report: UPDATE sessions SET status = 'completed',
\* final_report_json = ?, updated_at = ?, is_stopped = 0; the two documents.
TableSave ==
    /\ \E updated \in Stamps :
          table' = [table EXCEPT
                       !.row = IF @.present
                               THEN [@ EXCEPT !.status = "completed",
                                              !.final_report = TRUE,
                                              !.updated_at = updated,
                                              !.is_stopped = FALSE]
                               ELSE @,
                       !.docs = TRUE,
                       !.last = "save", !.input = NoTableRow,
                       !.repeated = FALSE]
    /\ UNCHANGED <<coreVars, timeout_seconds, memory_context, found, finder, report,
                   route, cleanup, writing>>

\* delete_session: the session's documents, events and row.
TableDelete ==
    /\ table' = [NoTable EXCEPT !.last = "delete"]
    /\ UNCHANGED <<coreVars, timeout_seconds, memory_context, found, finder, report,
                   route, cleanup, writing>>

TableNext ==
    \/ TableUpsert
    \/ TableAppend
    \/ TableSave
    \/ TableDelete

TableSpec == Init /\ [][TableNext]_vars

(***************************************************************************)
(* The source finder: one find_sources call on its search results, and the *)
(* finder node over its executions in one run of the graph (first pass,    *)
(* finder retries, later iterations), whose returned state the graph       *)
(* reduces into state["sources"] with merge_lists.                         *)
(***************************************************************************)
MaxFinderRuns == 2    \* executions of the finder node in one run
MaxResults == 3       \* search results one find_sources call gets
MaxPerDomain == 2     \* find_sources: max_per_domain with diversity on
MinMaxSources == 3    \* ResearchOptions.max_sources, ge

\* URLs the search returns and the sub-question ids of the plan.
Urls == {"a1", "a2", "a3", "b1"}
Plan == <<"sq1", "sq2">>

\* urlparse(url).netloc
Domain(url) == IF url = "b1" THEN "b" ELSE "a"

\* hash(url) % 10000: "a1" and "b1" collide.
Hash(url) ==
    CASE url = "a1" -> 1 [] url = "a2" -> 2 [] url = "a3" -> 3 [] OTHER -> 1

\* Search results of one find_sources call, all queries one after another.
SearchResults(n) == UNION {[1..k -> Urls] : k \in 0..n}

\* _create_source: id = f"src-{sub_question_id}-{hash(url) % 10000:04d}"
CreateSource(url, sub_question_id) ==
    [id |-> <<sub_question_id, Hash(url)>>, url |-> url, domain |-> Domain(url)]

DomainCount(all_sources, domain) ==
    Cardinality({i \in 1..Len(all_sources) : all_sources[i].domain = domain})

\* find_sources, the loop over the search results.
RECURSIVE Filter(_, _, _, _, _)
Filter(results, sub_question_id, all_sources, sources_limit, max_per_domain) ==
    IF results = <<>> THEN all_sources
    ELSE LET source == CreateSource(Head(results), sub_question_id)
         IN IF DomainCount(all_sources, source.domain) >= max_per_domain
            THEN Filter(Tail(results), sub_question_id, all_sources,
                        sources_limit, max_per_domain)
            ELSE IF Len(all_sources) + 1 >= sources_limit
            THEN Append(all_sources, source)
            ELSE Filter(Tail(results), sub_question_id,
                        Append(all_sources, source), sources_limit,
                        max_per_domain)

FindSourcesNoCap(results, sub_question_id, max_sources_total, enforce_diversity) ==
    Filter(results, sub_question_id, <<>>, max_sources_total, 99999)

\* SourceFinderAgent.find_sources
FindSources(results, sub_question_id, max_sources_total, enforce_diversity) ==
    Filter(results, sub_question_id, <<>>, max_sources_total,
           IF enforce_diversity THEN MaxPerDomain ELSE 99999)

UrlsOf(list) == {list[i].url : i \in 1..Len(list)}

\* _finder_node: `if url and url not in seen_urls`
RECURSIVE AddUnseen(_, _)
AddUnseen(unique_sources, sources) ==
    IF sources = <<>> THEN unique_sources
    ELSE AddUnseen(IF Head(sources).url \in UrlsOf(unique_sources)
                   THEN unique_sources
                   ELSE Append(unique_sources, Head(sources)),
                   Tail(sources))

\* _finder_node: the loop over the plan, left when max_sources is reached.
RECURSIVE OverPlan(_, _, _, _)
OverPlan(plan, results, unique_sources, o) ==
    IF plan = <<>> THEN unique_sources
    ELSE LET next == AddUnseen(unique_sources,
                         FindSources(results[Head(plan)], Head(plan),
                                     o.max_sources_per_question,
                                     o.source_diversity))
         IN IF Len(next) >= o.max_sources THEN next
            ELSE OverPlan(Tail(plan), results, next, o)

\* unique_sources[: options.max_sources]
Truncate(list, n) == SubSeq(list, 1, IF Len(list) > n THEN n ELSE Len(list))

\* The list _finder_node assigns to state["sources"].
FinderNodeSources(results, o) ==
    Truncate(OverPlan(Plan, results, <<>>, o), o.max_sources)

\* merge_lists: result[item_id] = item, in a dict that keeps insertion order.
Put(result, item) ==
    IF \E i \in 1..Len(result) : result[i].id = item.id
    THEN [i \in 1..Len(result) |->
             IF result[i].id = item.id THEN item ELSE result[i]]
    ELSE Append(result, item)

RECURSIVE PutAll(_, _)
PutAll(result, list) ==
    IF list = <<>> THEN result ELSE PutAll(Put(result, Head(list)), Tail(list))

MergeListsReplace(left, right) == right

\* merge_lists(left, right), the reducer of state["sources"].
MergeLists(left, right) == PutAll(PutAll(<<>>, left), right)

\* One find_sources call.
FindSourcesCall ==
    /\ ~found.called /\ finder = NoFinder
    /\ \E results \in SearchResults(MaxResults),
          max_sources_total \in 1..MinMaxSources, enforce_diversity \in BOOLEAN :
          found' = [called |-> TRUE, results |-> results,
                    max_sources_total |-> max_sources_total,
                    enforce_diversity |-> enforce_diversity,
                    sources |-> FindSources(results, "sq1", max_sources_total,
                                            enforce_diversity)]
    /\ UNCHANGED <<coreVars, timeout_seconds, memory_context, table, finder, report,
                   route, cleanup, writing>>

\* One execution of the finder node; the options are those of the run.
FinderRun ==
    /\ ~found.called
    /\ finder.runs < MaxFinderRuns
    /\ \E results \in [{"sq1", "sq2"} -> SearchResults(MaxPerDomain)],
          per_question \in 1..MaxPerDomain, diversity \in BOOLEAN :
          /\ finder.runs > 0
                => /\ per_question = finder.max_sources_per_question
                   /\ diversity = finder.source_diversity
          /\ LET o == [max_sources |-> MinMaxSources,
                       max_sources_per_question |-> per_question,
                       source_diversity |-> diversity]
                 stored == FinderNodeSources(results, o)
             IN finder' = [runs |-> finder.runs + 1,
                           max_sources |-> o.max_sources,
                           max_sources_per_question |-> per_question,
                           source_diversity |-> diversity,
                           stored |-> stored,
                           sources |-> MergeLists(finder.sources, stored)]
    /\ UNCHANGED <<coreVars, timeout_seconds, memory_context, table, found, report,
                   route, cleanup, writing>>

\* The finder node's first execution in a run.
FinderFirstRun == finder.runs = 0 /\ FinderRun

FinderNext ==
    \/ FindSourcesCall
    \/ FinderFirstRun

FinderSpec == Init /\ [][FinderNext]_vars

\* The finder node executed again and again in one run (retries and
\* iterations), each result merged into state["sources"].
SourcesNext == FinderRun

SourcesSpec == Init /\ [][SourcesNext]_vars

(***************************************************************************)
(* The writer: write_report on the findings of a run and the LLM's reply.  *)
(* A text is a sequence of pieces: plain words, a link citation of a URL,  *)
(* or a numeric citation [N].  Which of the two replies parses is an       *)
(* input here (AgentSpec has the parser).                                  *)
(***************************************************************************)
MaxFindings == 2      \* findings of the run
MaxTextLen == 2       \* pieces of a section's content or of the raw reply
SummaryLen == 1       \* pieces the first 500 characters of a reply hold

\* source_info.url of a finding: a URL or none.
FindingUrls == {"u1", "u2", ""}
Findings == UNION {[1..n -> FindingUrls] : n \in 0..MaxFindings}

Word == [kind |-> "text", url |-> "", n |-> 0]
Link(url) == [kind |-> "link", url |-> url, n |-> 0]
Old(n) == [kind |-> "old", url |-> "", n |-> n]

\* Pieces the LLM writes: it may cite a URL of no finding, or a number.
Pieces == {Word, Link("u1"), Link("x"), Old(1), Old(MaxFindings + 1)}
Texts(n) == UNION {[1..k -> Pieces] : k \in 0..n}

\* What the LLM lists as sources_used.
LlmSources == {<<>>, <<"x">>, <<"u1", "u1">>}

Paths == {"parsed", "repaired", "fallback", "raised"}

\* valid_urls of _validate_citations
ValidUrls(findings) == {findings[i] : i \in 1..Len(findings)} \ {""}

\* _extract_sources_from_findings: `if url and url not in seen_urls`
RECURSIVE ExtractFrom(_, _, _)
ExtractFrom(findings, i, sources) ==
    IF i > Len(findings) THEN sources
    ELSE ExtractFrom(findings, i + 1,
             IF findings[i] # "" /\ \A k \in 1..Len(sources) :
                                        sources[k].url # findings[i]
             THEN Append(sources, [id |-> i, url |-> findings[i]])
             ELSE sources)

ExtractSourcesFromFindings(findings) == ExtractFrom(findings, 1, <<>>)

\* _normalize_sources, as far as the URLs go.
NormalizeSources(urls) == [k \in 1..Len(urls) |-> [id |-> 0, url |-> urls[k]]]

\* convert_old_citations: [N] becomes the link of finding N, or goes.
RECURSIVE ConvertOldCitations(_, _)
ConvertOldCitations(text, findings) ==
    IF text = <<>> THEN <<>>
    ELSE LET p == Head(text)
             rest == ConvertOldCitations(Tail(text), findings)
         IN IF p.kind # "old" THEN <<p>> \o rest
            ELSE IF p.n >= 1 /\ p.n <= Len(findings) /\ findings[p.n] # ""
            THEN <<Link(findings[p.n])>> \o rest
            ELSE rest

\* validate_link_citations: a link whose URL is not valid goes.
ValidateLinkCitations(text, valid_urls) ==
    SelectSeq(text, LAMBDA p : p.kind = "link" => p.url \in valid_urls)

FixCitations(text, findings) ==
    ValidateLinkCitations(ConvertOldCitations(text, findings),
                          ValidUrls(findings))

ValidateCitationsKeepSources(r, findings) ==
    IF findings = <<>> THEN r
    ELSE [r EXCEPT
             !.executive_summary = FixCitations(@, findings),
             !.content = FixCitations(@, findings)]

\* _validate_citations
ValidateCitations(r, findings) ==
    IF findings = <<>> THEN r
    ELSE [r EXCEPT
             !.executive_summary = FixCitations(@, findings),
             !.content = FixCitations(@, findings),
             !.sources_used = ExtractSourcesFromFindings(findings)]

\* _parse_report_response on a reply that parsed.
ParseReportResponse(reply, findings, path) ==
    LET listed == NormalizeSources(reply.sources_used)
    IN ValidateCitations(
           [path |-> path, executive_summary |-> reply.executive_summary,
            content |-> reply.content,
            sources_used |-> IF listed = <<>>
                             THEN ExtractSourcesFromFindings(findings)
                             ELSE listed],
           findings)

\* content[:500]
First500(content) ==
    SubSeq(content, 1, IF Len(content) > SummaryLen THEN SummaryLen
                       ELSE Len(content))

\* _fallback_report_from_raw
FallbackReportFromRaw(content, findings) ==
    [path |-> "fallback", executive_summary |-> First500(content),
     content |-> content,
     sources_used |-> ExtractSourcesFromFindings(findings)]

\* _create_error_report
CreateErrorReport ==
    [path |-> "error", executive_summary |-> <<Word>>, content |-> <<>>,
     sources_used |-> <<>>]

\* write_report.  `reply` is the reply that parsed, if one did, and else the
\* first reply, whose content is the raw text.
WriterOutput(findings, path, reply) ==
    IF findings = <<>> \/ path = "raised" THEN CreateErrorReport
    ELSE IF path \in {"parsed", "repaired"}
    THEN ParseReportResponse(reply, findings, path)
    ELSE FallbackReportFromRaw(reply.content, findings)

\* The writer node calls write_report.
WriteCall ==
    /\ ~report.written
    /\ \E findings \in Findings, path \in Paths,
          summary \in Texts(SummaryLen), content \in Texts(MaxTextLen),
          listed \in LlmSources :
          LET reply == [executive_summary |-> summary, content |-> content,
                        sources_used |-> listed]
          IN report' = [written |-> TRUE, findings |-> findings,
                        reply |-> reply,
                        final_report |-> WriterOutput(findings, path, reply)]
    /\ UNCHANGED <<coreVars, timeout_seconds, memory_context, table, found,
                   finder,
                   route, cleanup, writing>>

WriterNext == WriteCall

WriterSpec == Init /\ [][WriterNext]_vars

(***************************************************************************)
(* POST /api/research/start: the request model's validation of the query,  *)
(* then the route.  A query is a string seen as its leading whitespace,    *)
(* its core from the first to the last character that is not whitespace,   *)
(* and its trailing whitespace; a string of whitespace only has no core    *)
(* and no trail.                                                           *)
(***************************************************************************)
MaxPad == 3              \* most whitespace characters before or after the core
MinQueryLength == 3      \* Field(min_length=3)
MaxQueryLength == 2000   \* Field(max_length=2000)

Queries ==
    {q \in [lead : 0..MaxPad, core : 0..(MaxQueryLength + 1), trail : 0..MaxPad] :
        q.core = 0 => q.trail = 0}

\* len(query)
QueryLen(q) == q.lead + q.core + q.trail

\* str.strip(): the whitespace at both ends is dropped.
Strip(q) == [lead |-> 0, core |-> q.core, trail |-> 0]

\* StartResearchRequest.query: the length limits pydantic applies to the
\* string as it was sent.
ValidQuery(q) == MinQueryLength <= QueryLen(q) /\ QueryLen(q) <= MaxQueryLength

\* The route: a request the model refuses is answered 422 by the framework;
\* otherwise the query is stripped, refused with 422 when nothing is left,
\* and else handed to manager.start_research, which stores it in the session.
StartResearchResponse(raw) ==
    IF ~ValidQuery(raw)
    THEN [posted |-> TRUE, raw |-> raw, status_code |-> 422, started |-> FALSE,
          query |-> NoRoute.query]
    ELSE LET query == Strip(raw)
         IN IF QueryLen(query) = 0
            THEN [posted |-> TRUE, raw |-> raw, status_code |-> 422,
                  started |-> FALSE, query |-> NoRoute.query]
            ELSE [posted |-> TRUE, raw |-> raw, status_code |-> 200,
                  started |-> TRUE, query |-> query]

PostStart ==
    /\ ~route.posted
    /\ \E raw \in Queries : route' = StartResearchResponse(raw)
    /\ UNCHANGED <<coreVars, timeout_seconds, memory_context, table, found, finder,
                   report, cleanup, writing>>

RouteNext == PostStart

RouteSpec == Init /\ [][RouteNext]_vars

(***************************************************************************)
(* cleanup_old_sessions, called at any moment of the manager's life.  A    *)
(* timestamp is the naive UTC ISO text _utc_iso_now writes, seen as its    *)
(* day and its hour; datetime.fromisoformat and the subtraction of         *)
(* timedelta(hours=...) are computed on the hours since day 0.  Session 2  *)
(* was persisted by an earlier process and is only ever rehydrated.  The   *)
(* call reads the map, each task and each updated_at only, so session 1    *)
(* goes through its start, its run and its deletion here; stops and        *)
(* process restarts are the subject of Spec.                               *)
(***************************************************************************)
MaxCleanups == 1   \* cleanup_old_sessions calls
MaxDay == 1        \* last day of the clock

HoursOfDay == {0, 23}

IsoTimes == [day : 0..MaxDay, hour : HoursOfDay]

\* Values of max_age_hours (default 24).
Ages == {1, 24}

\* datetime.fromisoformat(text), as hours since day 0.
Hours(t) == t.day * 24 + t.hour

\* The session an earlier process completed and persisted.
Archived ==
    [row |-> Row("completed", FALSE, [report |-> TRUE, error |-> FALSE], TRUE, 2),
     events |-> <<Event("research_started", 0), Event("research_completed", 1)>>,
     docs |-> {<<1, "json">>, <<1, "markdown">>}]

CleanupInit ==
    /\ db = [s \in Ids |-> IF s \in First THEN NoRow ELSE Archived.row]
    /\ events = [s \in Ids |-> IF s \in First THEN <<>> ELSE Archived.events]
    /\ docs = [s \in Ids |-> IF s \in First THEN {} ELSE Archived.docs]
    /\ wiped = {}
    /\ lockq = <<>>
    /\ orphans = {}
    /\ MgrNew(Ids \ First)
    /\ GraphIdle
    /\ calls = <<>>

\* The updated_at of each cached session: no later than now; the archived
\* session's is the clock's first moment.
UpdatedAts(cached, now) ==
    {u \in [cached -> {t \in IsoTimes : Hours(t) <= Hours(now)}] :
        \A s \in cached \ First : Hours(u[s]) = 0}

ToRemoveRunningToo(cached, updated_at, now, max_age_hours) ==
    {s \in cached : Hours(updated_at[s]) < Hours(now) - max_age_hours}

\* Lines 512-522: the sessions the loop puts in to_remove.
ToRemove(cached, updated_at, now, max_age_hours) ==
    {s \in cached : /\ ~IsRunning(s)
                    /\ Hours(updated_at[s]) < Hours(now) - max_age_hours}

\* The whole call is one step: when the manager is initialized,
\* _ensure_initialized returns at once and nothing else awaits; on the
\* first use it loads the persisted sessions first, as Initialize does.
CleanupOldSessions ==
    /\ cleanup.calls < MaxCleanups
    /\ ~initialized => lockq = <<>>
    /\ LET cached == IF initialized THEN inMap ELSE {s \in Ids : db[s].present}
       IN \E now \in IsoTimes, max_age_hours \in Ages :
          \E updated_at \in UpdatedAts(cached, now) :
             LET to_remove == ToRemove(cached, updated_at, now, max_age_hours)
             IN /\ inMap' = cached \ to_remove
                /\ cleanup' = [calls |-> cleanup.calls + 1, now |-> now,
                               max_age_hours |-> max_age_hours,
                               cached |-> cached,
                               running |-> {s \in cached : IsRunning(s)},
                               updated_at |-> updated_at,
                               removed |-> Cardinality(to_remove)]
    /\ sess' = IF initialized THEN sess
               ELSE [s \in Ids |-> IF db[s].present THEN Rehydrate(db[s]) ELSE NoSess]
    /\ initialized' = TRUE
    /\ lastOp' = Returned("cleanup", 0, "count")
    /\ UNCHANGED <<storeVars, exec, cancelReq, gev, graphOut, starter, stopper,
                   deleter, used, graphVars, calls, obs, llm, timeout_seconds,
                   memory_context, table, found, finder, report, route, writing>>

CleanupNext ==
    \/ Initialize
    \/ \E s \in First : StartCall(s)
    \/ \E s \in First : StartComplete(s)
    \/ \E s \in First : ExecFirstStep(s)
    \/ \E s \in First : ExecComplete(s)
    \/ \E s \in First : GraphEmit(s)
    \/ \E s \in First : GraphReturn(s)
    \/ HeadRead
    \/ \E s \in First : DeleteCall(s)
    \/ \E s \in First : DeleteComplete(s)
    \/ CleanupOldSessions

CleanupSpec == CleanupInit /\ [][CleanupNext]_vars

(***************************************************************************)
(* The event stream as the client of GET /api/research/{id}/events         *)
(* receives it: stream_events for a known and for an unknown session id,   *)
(* and the `done` event the route adds when the generator returns.         *)
(***************************************************************************)
\* Lines 310-314: no session of that id in the map; one event, then return.
StreamUnknown(s) ==
    /\ initialized
    /\ s \notin inMap
    /\ obs[s].pc = "idle"
    /\ obs' = [obs EXCEPT ![s] = Close(@, "error")]
    /\ lastOp' = NoOp
    /\ UNCHANGED <<db, events, docs, wiped, lockq, orphans, initialized, inMap, sess,
                   exec, cancelReq, gev, graphOut, starter, stopper, deleter, used,
                   graphVars, calls, llm, unitVars>>

\* event_generator: every event of the generator, then {'type': 'done'}.
Received(o) ==
    IF o.pc = "closed" THEN Append(o.out, Synthesized("done")) ELSE o.out

LifecycleTypes ==
    {"connected", "research_started", "heartbeat", "research_completed",
     "research_stopped", "research_error", "done"}

\* The event types the graph's nodes emit (graph.py, every _emit_event call).
NodeProgressTypes ==
    {"planner_running", "planner_complete", "finder_running", "finder_source",
     "finder_complete", "summarizer_running", "summarizer_fetch",
     "summarizer_retry", "summarizer_complete", "reviewer_running",
     "reviewer_complete", "writer_running", "writer_complete"}

\* The types an event of the model stands for: a node event is any of the
\* graph's, every other event is the one of its name.
TypesOf(etype) == IF etype = "node" THEN NodeProgressTypes ELSE {etype}

EventsNext ==
    \/ Initialize
    \/ \E s \in First : StartCall(s)
    \/ \E s \in First : StartComplete(s)
    \/ \E s \in First : ExecFirstStep(s)
    \/ \E s \in First : ExecComplete(s)
    \/ \E s \in First : GraphEmit(s)
    \/ \E s \in First : GraphReturn(s)
    \/ \E s \in First : ExecCancelled(s)
    \/ HeadRead
    \/ OrphanRead
    \/ OrphanRun
    \/ \E s \in First, k \in Stoppers : StopCall(s, k)
    \/ \E s \in First, k \in Stoppers : StopResume(s, k)
    \/ \E s \in First, k \in Stoppers : StopComplete(s, k)
    \/ \E s \in First : DeleteCall(s)
    \/ \E s \in First : DeleteComplete(s)
    \/ Crash
    \/ \E s \in First : StreamConnect(s)
    \/ \E s \in First : StreamListed(s)
    \/ \E s \in First : StreamReplayYield(s)
    \/ \E s \in First : StreamReplayed(s)
    \/ \E s \in First : StreamPoll(s)
    \/ \E s \in First : StreamPolled(s)
    \/ \E s \in First : StreamDrainYield(s)
    \/ \E s \in First : StreamUnknown(s)

EventsSpec == Init /\ [][EventsNext]_vars

(***************************************************************************)
(* A graph run in which every node invocation returns: no node raises, no  *)
(* timeout.  The engine runs the next node as soon as one returned, so a   *)
(* run that can take a step takes one (weak fairness of the run's steps).  *)
(***************************************************************************)
GraphLiveNext ==
    \/ PlannerNode
    \/ FinderNode
    \/ SummarizerNode
    \/ SummarizerRouter
    \/ ReviewerNode
    \/ ReviewerRouter
    \/ WriterNode

GraphLiveSpec == GraphInit /\ [][GraphLiveNext]_vars /\ WF_vars(GraphLiveNext)

(***************************************************************************)
(* The writer node on its own: write_report's LLM calls, the report it     *)
(* hands back, and what _writer_node and _run_graph make of that report.   *)
(***************************************************************************)
\* What the members of a reply's JSON object are: the strings the prompt
\* asks for, an "error" key among them, or an executive_summary that is not
\* a string.
Members == {"plain", "error", "untyped"}

\* adapter.chat_completion: an exception, or a reply with this content
LlmReplies(S) ==
    {[raises |-> TRUE, content |-> <<>>]} \cup
    {[raises |-> FALSE, content |-> c] : c \in S}

HasMembers(c) ==
    \E i \in 1..Len(JsonCandidate(c)) : JsonCandidate(c)[i] = "m"

\* _parse_report_response: None, the report, or the TypeError re.sub raises
\* in _validate_citations on an executive_summary that is not a string.
ParseReport(c, members) ==
    IF ~ParseJsonPayload(c) THEN "none"
    ELSE IF HasMembers(c) /\ members = "untyped" THEN "raises"
    ELSE "report"

\* The report of a reply that parsed keeps the keys of the reply.
ReportOf(kind, c, members) ==
    [kind |-> kind, error |-> HasMembers(c) /\ members = "error"]

\* _create_error_report
ErrorReport == [kind |-> "error", error |-> TRUE]

\* _repair_report_output: no LLM call for empty content; an exception of the
\* call gives the empty string.
RepairCalled(first) == first.content # <<>>

RepairReportOutput(first, repair) ==
    IF RepairCalled(first) /\ ~repair.raises THEN repair.content ELSE <<>>

\* write_report
WriteReportResult(findings, first, repair, members) ==
    IF findings = 0
    THEN [llm_calls |-> 0, repair_called |-> FALSE, final_report |-> ErrorReport]
    ELSE IF first.raises
    THEN [llm_calls |-> 1, repair_called |-> FALSE, final_report |-> ErrorReport]
    ELSE IF ParseReport(first.content, members) # "none"
    THEN [llm_calls |-> 1, repair_called |-> FALSE,
          final_report |->
              IF ParseReport(first.content, members) = "raises"
              THEN ErrorReport
              ELSE ReportOf("parsed", first.content, members)]
    ELSE LET repaired_content == RepairReportOutput(first, repair)
             parsed == ParseReport(repaired_content, members)
         IN [llm_calls |-> IF RepairCalled(first) THEN 2 ELSE 1,
             repair_called |-> RepairCalled(first),
             final_report |->
                 CASE parsed = "report" ->
                          ReportOf("repaired", repaired_content, members)
                   [] parsed = "raises" -> ErrorReport
                   [] OTHER -> [kind |-> "fallback", error |-> FALSE]]

\* _writer_node stores the report and sets the status; graph.run returns the
\* state, a non-empty dict as final_report, and _run_graph classifies it.
WriterNodeRun ==
    /\ ~writing.called
    /\ \E findings \in 0..1, first \in LlmReplies(Contents),
          repair \in LlmReplies(Repairs), members \in Members :
          LET r == WriteReportResult(findings, first, repair, members)
              c == Classify([NoSess EXCEPT !.status = "running"], "report")
          IN writing' = [called |-> TRUE, findings |-> findings,
                         first |-> first, repair |-> repair,
                         members |-> members, llm_calls |-> r.llm_calls,
                         repair_called |-> r.repair_called,
                         final_report |-> r.final_report,
                         status |-> "completed",
                         terminal |-> c.ss.status]
    /\ UNCHANGED <<coreVars, timeout_seconds, memory_context, table, found,
                   finder, report, route, cleanup>>

ReportNext == WriterNodeRun

ReportSpec == Init /\ [][ReportNext]_vars

(***************************************************************************)
(* stop_research called by more than one client at a time: one caller more *)
(* than the manager specification has, and no delete and no restart.       *)
(***************************************************************************)
StopCallers == 1..(MaxStoppers + 1)

StopInit ==
    StoreEmpty /\ MgrStart({}, StopCallers) /\ GraphIdle /\ calls = <<>>

StopNext ==
    \/ Initialize
    \/ \E s \in First : StartCall(s)
    \/ \E s \in First : StartComplete(s)
    \/ \E s \in First : ExecFirstStep(s)
    \/ \E s \in First : ExecComplete(s)
    \/ \E s \in First : GraphEmit(s)
    \/ \E s \in First : GraphReturn(s)
    \/ \E s \in First : ExecCancelled(s)
    \/ HeadRead
    \/ OrphanRead
    \/ OrphanRun
    \/ \E s \in First, k \in StopCallers : StopCall(s, k)
    \/ \E s \in First, k \in StopCallers : StopResume(s, k)
    \/ \E s \in First, k \in StopCallers : StopComplete(s, k)

StopSpec == StopInit /\ [][StopNext]_vars

(***************************************************************************)
(* Properties.                                                             *)
(***************************************************************************)
\* Positions in a log of the terminal events.
TerminalEvents(evs) == {i \in 1..Len(evs) : evs[i].type \in TerminalTypes}

\* No database work of the executor of s is still in a thread.
ExecQuiet(s) == \A e \in orphans : e.co # ExecCo(s)

\* The run of s began: its log opens with research_started.
RunLogged(s) == events[s] # <<>> /\ events[s][1].type = "research_started"

\* C1: once the executor task of a run that logged research_started is done
\* and none of its database work is pending, the session's durable log holds
\* exactly one terminal event (research_completed, research_error or
\* research_stopped): never zero, never two.
C1_ExactlyOneTerminal ==
    \A s \in Ids :
        (exec[s] = "done" /\ ExecQuiet(s) /\ RunLogged(s))
            => Cardinality(TerminalEvents(events[s])) = 1

\* C2: when stop_research returns true for a session that no delete has
\* touched, the in-memory status and the persisted status are both "stopped"
\* and the terminal event of the log is research_stopped, with no
\* research_completed or research_error.
C2_StopMeansStopped ==
    \A s \in Ids :
        (lastOp = Returned("stop", s, "true") /\ s \notin wiped)
            => /\ sess[s].status = "stopped"
               /\ db[s].present /\ db[s].status = "stopped"
               /\ {events[s][i].type : i \in TerminalEvents(events[s])}
                      = {"research_stopped"}

\* C3: in every state of a graph run, for max_iterations in 1..10 and any
\* outcomes of the nodes, iteration never exceeds max_iterations.
C3_IterationBounded == iteration <= max_iterations

\* The reviewer still reports gaps at the last allowed iteration, and the
\* router has sent the run to the writer.
C3_Witness ==
    /\ node = "writer" /\ has_gaps
    /\ iteration = max_iterations /\ max_iterations > MinIterations

\* C4: for every session whose executor task has finished, the final report
\* is populated if and only if the status is "completed", in the in-memory
\* session and in the persisted row.
C4_ReportIffCompleted ==
    \A s \in Ids :
        exec[s] = "done"
            => /\ sess[s].report <=> (sess[s].status = "completed")
               /\ db[s].present
                      => (db[s].final_report <=> (db[s].status = "completed"))

\* C5: whenever no store call is in flight, every session row's events_count
\* equals the number of persisted events of that session, and their indices
\* are exactly 0..events_count-1.
C5_CountMatchesLog ==
    (lockq = <<>> /\ orphans = {})
        => \A s \in Ids :
              db[s].present
                  => /\ db[s].events_count = Len(events[s])
                     /\ {events[s][i].index : i \in 1..Len(events[s])}
                            = 0..(db[s].events_count - 1)

\* C6: every session in the in-memory map whose status is "running" has a
\* live executor task.
C6_RunningHasTask ==
    \A s \in inMap : sess[s].status = "running" => IsRunning(s)

\* C7: on a restarted manager every loaded session whose persisted status
\* is "running" is observed "stopped" with its stop flag set, sessions with
\* any other persisted status keep it, no loaded session ever has an
\* executor task, and a session started afterwards is registered running,
\* persisted, and given its executor task.
C7_RestartSafe ==
    /\ \A s \in First :
          /\ exec[s] = "none"
          /\ (initialized /\ s \in inMap)
                => /\ db[s].present
                   /\ db[s].status = "running"
                         => (sess[s].status = "stopped" /\ sess[s].stop)
                   /\ db[s].status # "running"
                         => sess[s].status = db[s].status
    /\ \A s \in Ids \ First :
          lastOp = Returned("start", s, "started")
            => /\ s \in inMap /\ sess[s].status = "running"
               /\ exec[s] = "created"
               /\ db[s].present /\ db[s].status = "running"

\* A session left "running" by the dead process is loaded as stopped, and
\* a new session has just been started next to it.
C7_Witness ==
    /\ initialized /\ 1 \in inMap
    /\ db[1].status = "running" /\ sess[1].status = "stopped" /\ sess[1].stop
    /\ lastOp = Returned("start", 2, "started") /\ exec[2] = "created"

C9_DeleteContract ==
    [][\A s \in Ids :
          (deleter[s] = "delete" /\ deleter'[s] = "idle" /\ initialized')
            => IF db[s].present
               THEN /\ lastOp' = Returned("delete", s, "deleted")
                    /\ s \notin inMap'
                    /\ ~db'[s].present /\ events'[s] = <<>> /\ docs'[s] = {}
               ELSE /\ lastOp' = Returned("delete", s, "not_found")
                    /\ UNCHANGED <<db, events, docs>>]_vars

\* C10: stop_research goes on to cancel the task exactly when the id is in
\* the map and its task is not done at call time, and only such a call
\* returns true; a call that returns false leaves the session, the map, the
\* task, the row, the events and the documents as they were.
C10_StopReturn ==
    [][\A s \in Ids :
          /\ \A k \in Stoppers :
                (stopper[s][k] = "idle" /\ stopper'[s][k] = "await")
                    => (s \in inMap /\ IsRunning(s))
          /\ lastOp' = Returned("stop", s, "false")
                => /\ ~(s \in inMap /\ IsRunning(s))
                   /\ UNCHANGED <<inMap, sess, exec, cancelReq, db, events,
                                  docs, lockq, orphans>>
          /\ lastOp' = Returned("stop", s, "true")
                => \E k \in Stoppers : stopper[s][k] = "persist"]_vars

\* stop_research has just returned true for a session it found running.
C10_Witness ==
    /\ lastOp = Returned("stop", 1, "true")
    /\ sess[1].stop /\ exec[1] = "done"

\* C11: whenever _emit_event returns to the wrapper, the event it was handed
\* is the newest event of the session's durable log, also when the append
\* failed.
C11_EmittedIsLogged ==
    [][\A s \in Ids :
          (/\ Holds(ExecCo(s))
           /\ Head(lockq).job.op \in {"append", "insert"}
           /\ ~cancelReq[s]
           /\ initialized'
           /\ exec'[s] # exec[s])
            => /\ events'[s] # <<>>
               /\ events'[s][Len(events'[s])].type = Head(lockq).job.etype]_vars

\* C12: every database work that a thread is executing belongs to the call
\* that holds the store mutex, so no two works are ever between their first
\* and last statement at the same time, also after a caller was cancelled.
C12_WorkUnderMutex ==
    /\ \A e \in orphans : FALSE
    /\ ~(\E e \in orphans :
            /\ e.job.op = "insert"
            /\ lockq # <<>> /\ Head(lockq).job.op = "insert")

\* The status each terminal event stands for.
StatusOf(etype) ==
    CASE etype = "research_completed" -> "completed"
      [] etype = "research_error"     -> "error"
      [] OTHER                        -> "stopped"

\* C13: once the executor task of a session is done and none of its
\* database work is pending, the status of the persisted row is the one
\* that each terminal event of the durable log stands for.
C13_StatusMatchesTerminal ==
    \A s \in Ids :
        (exec[s] = "done" /\ ExecQuiet(s) /\ s \notin wiped /\ db[s].present)
            => \A i \in TerminalEvents(events[s]) :
                   db[s].status = StatusOf(events[s][i].type)

\* The types of the events in a log.
Types(evs) == {evs[i].type : i \in 1..Len(evs)}

\* C14: a run that nobody stopped and whose graph returned status "error"
\* or no final report ends with the session in status "error" with an error
\* message, the row in status "error" with no final report stored, and
\* research_error but no research_completed in the log.
C14_ErrorResult ==
    \A s \in Ids :
        (/\ exec[s] = "done" /\ graphOut[s] \in {"error", "noreport"}
         /\ ~sess[s].stop /\ s \notin wiped)
            => /\ sess[s].status = "error" /\ sess[s].error
               /\ db[s].present /\ db[s].status = "error"
               /\ ~db[s].final_report /\ docs[s] = {}
               /\ "research_error" \in Types(events[s])
               /\ "research_completed" \notin Types(events[s])

\* The graph returned status "completed" without a report, and the run has
\* ended as an error.
C14_Witness ==
    /\ exec[1] = "done" /\ graphOut[1] = "noreport" /\ ~sess[1].stop
    /\ 1 \notin wiped /\ db[1].status = "error"
    /\ "research_error" \in Types(events[1])

\* The two documents of a session.
ReportDocs(s) == {<<s, "json">>, <<s, "markdown">>}

Persisted(o) == SelectSeq(o.out, LAMBDA e : e.index >= 0)

IsPrefix(a, b) == Len(a) <= Len(b) /\ SubSeq(b, 1, Len(a)) = a

\* C16: what a stream yielded starts with `connected`; the persisted events
\* after it come in increasing index order and are a gap-free prefix of the
\* session's log, each once; and they are the whole log once the stream has
\* ended on a persisted terminal event.
C16_StreamIsLogPrefix ==
    \A s \in Ids :
        LET o == obs[s]
            p == Persisted(o)
            log == ListEventsSync(events[s])
        IN (o.pc # "idle" /\ s \notin wiped)
              => /\ o.out[1] = Synthesized("connected")
                 /\ \A i \in 2..Len(o.out) : o.out[i].type # "connected"
                 /\ \A i \in 1..(Len(p) - 1) : p[i].index < p[i + 1].index
                 /\ IsPrefix(p, log)
                 /\ (/\ o.pc = "closed"
                     /\ o.out[Len(o.out)].index >= 0
                     /\ o.out[Len(o.out)].type \in TerminalTypes) => p = log

\* The terminal events among what a stream yielded.
TerminalYielded(o) == SelectSeq(o.out, LAMBDA e : e.type \in TerminalTypes)

\* C17: a stream that has ended yielded exactly one terminal event, and it
\* was the last thing it yielded.
C17_OneTerminalLast ==
    \A s \in Ids :
        LET o == obs[s]
        IN o.pc = "closed"
              => /\ Len(TerminalYielded(o)) = 1
                 /\ o.out[Len(o.out)].type \in TerminalTypes

\* The stream of s makes up a terminal event in this step.
MakesUp(s) ==
    /\ obs[s].pc # "closed"
    /\ obs'[s].pc = "closed"
    /\ Len(obs'[s].out) = Len(obs[s].out) + 1
    /\ obs'[s].out[Len(obs'[s].out)].index = -1

\* C18: a terminal event a stream makes up has the type of the session's
\* status (completed, error or stopped), and the replay branch and the
\* polling branch would make up the same one.
C18_SynthesizedMatchesStatus ==
    [][\A s \in Ids :
          MakesUp(s) =>
              /\ sess[s].status \in {"completed", "error", "stopped"}
                    => StatusOf(obs'[s].out[Len(obs'[s].out)].type) = sess[s].status
              /\ ReplayTerminal(sess[s]) = PollTerminal(sess[s])]_vars

\* No part of the reply is a JSON object.
NoJson(c) ==
    \A i \in 1..Len(c) : \A j \in i..Len(c) : ~JsonLoads(SubSeq(c, i, j))

\* C19: an agent given a reply without parseable JSON does not raise and
\* the run does not fail: the reviewer returns has_gaps false and no gaps,
\* the summarizer no key facts, the finder at least one search query.
C19_NoJsonNeverRaises ==
    (llm.agent # "none" /\ NoJson(llm.content) /\ NoJson(llm.repaired))
        => /\ ~llm.result.raised
           /\ llm.run # "error"
           /\ llm.result.value.kind # "none"
           /\ llm.agent = "reviewer"
                 => /\ llm.result.value.kind = "default"
                    /\ ~llm.result.value.has_gaps
                    /\ llm.result.value.gaps = 0
           /\ llm.agent = "summarizer"
                 => /\ llm.result.value.kind = "default"
                    /\ llm.result.value.key_facts = 0
           /\ llm.agent = "finder"
                 => /\ llm.result.value.kind = "default"
                    /\ llm.result.value.search_queries >= 1

\* Rows of the log of one type.
CountOf(evs, etype) == Cardinality({i \in 1..Len(evs) : evs[i].type = etype})

\* What a failed run leaves: status "error" in memory and in the row, and
\* research_error as the one terminal event of the log.
EndedInError(s) ==
    /\ sess[s].status = "error" /\ sess[s].error
    /\ db[s].present /\ db[s].status = "error"
    /\ CountOf(events[s], "research_error") = 1
    /\ Cardinality(TerminalEvents(events[s])) = 1

TimedOut(s) == graphOut[s] = "timeout"

\* The timed-out run of s ended as a failed run, and no node runs.
TimedOutEndsInError ==
    \A s \in Ids :
        TimedOut(s)
            => /\ GraphResult(graphOut[s]).status = "error"
               /\ ~GraphResult(graphOut[s]).report
               /\ exec[s] \notin {"graph", "node_emit"}
               /\ (exec[s] = "done" /\ ~sess[s].stop /\ s \notin wiped)
                      => EndedInError(s)

\* A step adds no node event to the log of a timed-out run that has logged
\* its research_error.
NoNodeEventAfterTimeout ==
    \A s \in Ids :
        (TimedOut(s) /\ graphOut'[s] = "timeout"
         /\ CountOf(events[s], "research_error") > 0)
            => CountOf(events'[s], "node") <= CountOf(events[s], "node")

\* C21: when the graph run exceeds its timeout, run() returns the state with
\* status "error" and no final report; the session (no stop being requested)
\* then ends with status "error" and one research_error event, no node runs
\* any more and no node event follows the research_error in its log.
C21_TimeoutEndsInError ==
    []TimedOutEndsInError /\ [][NoNodeEventAfterTimeout]_vars

\* C22: the timeout handed to graph.run is max(60, minutes * 60) seconds for
\* every configured number of minutes: at least 60 seconds always, and 900
\* seconds for 15 minutes.
C22_TimeoutFloor ==
    timeout_seconds # NoTimeout
        => /\ timeout_seconds.seconds >= 60
           /\ timeout_seconds.seconds >= timeout_seconds.minutes * 60
           /\ timeout_seconds.seconds \in {60, timeout_seconds.minutes * 60}
           /\ timeout_seconds.minutes = 15 => timeout_seconds.seconds = 900

\* A setting under one minute was configured and the timeout is 60 seconds.
C22_Witness ==
    /\ timeout_seconds.minutes < 1
    /\ timeout_seconds.seconds = 60

\* C23: the session memory handed to the graph lists only sessions whose row
\* has status "completed" and a stored final report, never the session being
\* started and no session twice; it has at most session_memory_limit entries,
\* the most recently updated first, and none that is older than an eligible
\* session left out; it is empty when include_session_memory is false or the
\* limit is 0.
C23_SessionMemory ==
    memory_context.loaded =>
        LET m == memory_context.session_memory
            rows == memory_context.rows
        IN /\ \A k \in 1..Len(m) :
                 /\ rows[m[k]].status = "completed"
                 /\ rows[m[k]].final_report
                 /\ m[k] # memory_context.session_id
           /\ Len(m) <= memory_context.session_memory_limit
           /\ \A k, l \in 1..Len(m) :
                 k < l => /\ m[k] # m[l]
                          /\ rows[m[k]].updated_at >= rows[m[l]].updated_at
           /\ \A e \in DOMAIN rows :
                 (/\ memory_context.include_session_memory
                  /\ rows[e].status = "completed" /\ rows[e].final_report
                  /\ e # memory_context.session_id
                  /\ \A k \in 1..Len(m) : m[k] # e)
                     => /\ Len(m) = memory_context.session_memory_limit
                        /\ \A k \in 1..Len(m) :
                              rows[m[k]].updated_at >= rows[e].updated_at
           /\ (~memory_context.include_session_memory
               \/ memory_context.session_memory_limit = 0) => m = <<>>

\* Two completed sessions with reports were listed, the newer first, and the
\* completed row of the session itself was left out.
C23_Witness ==
    /\ memory_context.loaded
    /\ Len(memory_context.session_memory) = 2
    /\ memory_context.session_memory_limit = 2
    /\ LET m == memory_context.session_memory
           rows == memory_context.rows
       IN /\ rows[m[1]].updated_at > rows[m[2]].updated_at
          /\ rows[memory_context.session_id].status = "completed"
          /\ rows[memory_context.session_id].final_report

\* What an upsert_session call leaves alone: the session's events and
\* documents, and on a row that exists its events_count, final report and
\* created_at; a row it inserts has no events counted and no report.
UpsertKeeps ==
    table'.last = "upsert" =>
        /\ table'.row.present
        /\ table'.events = table.events
        /\ table'.docs = table.docs
        /\ IF table.row.present
           THEN /\ table'.row.events_count = table.row.events_count
                /\ table'.row.final_report = table.row.final_report
                /\ table'.row.created_at = table.row.created_at
           ELSE /\ table'.row.events_count = 0
                /\ ~table'.row.final_report

\* A second upsert_session call with the inputs of the call before it.
UpsertRepeated ==
    (table'.last = "upsert" /\ table'.repeated) => table'.row = table.row

\* C24: upsert_session called twice with the same inputs leaves the store as
\* the first call left it (one row, the same events_count, final report,
\* created_at, events and documents), and no upsert_session call changes the
\* events_count of a row.
C24_UpsertIdempotent == [][UpsertKeeps /\ UpsertRepeated]_vars

\* The second of two equal upsert_session calls returned on a row with
\* events counted and a stored report.
C24_Witness ==
    /\ table.last = "upsert" /\ table.repeated
    /\ table.row.events_count > 0 /\ table.row.final_report
    /\ table.row.created_at # table.input.created_at

\* No two entries of a list of sources have the same URL.
UniqueUrls(list) ==
    \A i, j \in 1..Len(list) : list[i].url = list[j].url => i = j

\* C25: after any number of executions of the finder node in a run, no two
\* entries of state["sources"] have the same URL.
C25_SourcesUniqueUrls == UniqueUrls(finder.sources)

\* C26: with source diversity enabled a find_sources call returns at most 2
\* sources of any one domain, whatever the search returned; a call returns at
\* most max_sources_total sources (the run's max_sources_per_question), and
\* the list the finder node assigns to state["sources"] has at most
\* max_sources entries.
C26_DomainAndSourceCaps ==
    /\ found.called
          => /\ found.enforce_diversity
                   => \A d \in {"a", "b"} :
                          DomainCount(found.sources, d) <= MaxPerDomain
             /\ Len(found.sources) <= found.max_sources_total
    /\ finder.runs > 0 => Len(finder.stored) <= finder.max_sources

\* With diversity on, the search returned three results of one domain and the
\* call kept two of them.
C26_Witness ==
    /\ found.called /\ found.enforce_diversity
    /\ found.max_sources_total = MinMaxSources
    /\ \A i \in 1..Len(found.results) : Domain(found.results[i]) = "a"
    /\ Len(found.results) = MaxPerDomain + 1
    /\ Len(found.sources) = MaxPerDomain

\* The URLs a text cites with link citations.
CitedUrls(text) == {text[i].url : i \in {k \in 1..Len(text) : text[k].kind = "link"}}

\* C27: whichever path of the writer produced the report of a completed run
\* (first parse, repair pass or raw-text fallback), every URL cited in its
\* executive_summary or in a section's content is the URL of a finding.
C27_CitationsFromFindings ==
    (report.written /\ report.final_report.path \in {"parsed", "repaired", "fallback"})
        => CitedUrls(report.final_report.executive_summary)
              \cup CitedUrls(report.final_report.content)
                  \subseteq ValidUrls(report.findings)

\* C28: in every report write_report returns (parsed, repaired, fallback or
\* error report) the URLs of sources_used are URLs of findings and none is
\* listed twice, whatever sources_used the LLM listed.
C28_SourcesUsedFromFindings ==
    report.written =>
        LET listed == report.final_report.sources_used
        IN /\ \A k \in 1..Len(listed) :
                 listed[k].url \in ValidUrls(report.findings)
           /\ \A k, l \in 1..Len(listed) :
                 listed[k].url = listed[l].url => k = l

\* A parsed report whose LLM listed a URL of no finding, over findings that
\* name one URL twice: sources_used lists that URL once.
C28_Witness ==
    /\ report.written /\ report.final_report.path = "parsed"
    /\ report.reply.sources_used = <<"x">>
    /\ report.findings = <<"u1", "u1">>
    /\ Len(report.final_report.sources_used) = 1

(***************************************************************************)
(* C29: every query a session is started with through POST                 *)
(* /api/research/start, the one handed to the manager and stored, is 3 to  *)
(* 2000 characters long, and a request whose query is not is answered 422  *)
(* and starts no session.                                                  *)
(***************************************************************************)
C29_StartedQueryLength ==
    route.posted =>
        /\ route.started =>
              /\ MinQueryLength <= QueryLen(route.query)
              /\ QueryLen(route.query) <= MaxQueryLength
        /\ ~ValidQuery(route.raw) => route.status_code = 422 /\ ~route.started

\* The part of C29 that holds: the limits apply to the query as it was sent,
\* and a query of whitespace only starts nothing.
SentQueryLimits ==
    route.posted =>
        /\ route.started => ValidQuery(route.raw) /\ route.query = Strip(route.raw)
        /\ route.started => 1 <= QueryLen(route.query)
        /\ route.started => QueryLen(route.query) <= MaxQueryLength
        /\ ~ValidQuery(route.raw) => route.status_code = 422 /\ ~route.started
        /\ QueryLen(Strip(route.raw)) = 0 => route.status_code = 422 /\ ~route.started

(***************************************************************************)
(* C30: cleanup_old_sessions removes from the in-memory map exactly the    *)
(* sessions that are not running and whose updated_at is older than the    *)
(* cutoff, never a running or a recently updated one; it returns the       *)
(* number removed and leaves every persisted row, event and document as    *)
(* it was.                                                                 *)
(***************************************************************************)
CleanupReturns == cleanup'.calls # cleanup.calls

\* The sessions in the map when the call reaches its loop.
CachedBefore == IF initialized THEN inMap ELSE {s \in Ids : db[s].present}

OldAndIdle ==
    {s \in CachedBefore :
        /\ ~IsRunning(s)
        /\ Hours(cleanup'.updated_at[s]) < Hours(cleanup'.now) - cleanup'.max_age_hours}

CleanupEffect ==
    CleanupReturns =>
        /\ inMap' = CachedBefore \ OldAndIdle
        /\ cleanup'.removed = Cardinality(OldAndIdle)
        /\ \A s \in CachedBefore : IsRunning(s) => s \in inMap'
        /\ \A s \in CachedBefore :
              Hours(cleanup'.updated_at[s]) >= Hours(cleanup'.now) - cleanup'.max_age_hours
                  => s \in inMap'
        /\ db' = db /\ events' = events /\ docs' = docs

C30_CleanupRemovesOldIdle == [][CleanupEffect]_vars

\* A call that removed one of two cached sessions: the archived one, old
\* enough, went; the other, running and as old, stayed; the rows of both
\* are in the store.
C30_Witness ==
    /\ cleanup.calls > 0
    /\ cleanup.cached = Ids
    /\ cleanup.running = First
    /\ cleanup.removed = 1
    /\ inMap = First
    /\ \A s \in Ids : Hours(cleanup.updated_at[s]) < Hours(cleanup.now) - cleanup.max_age_hours
    /\ \A s \in Ids : db[s].present
    /\ lastOp.op = "cleanup"

\* The types of the events a stream delivered.
ReceivedTypes(o) ==
    UNION {TypesOf(Received(o)[i].type) : i \in 1..Len(Received(o))}

\* C31: every event an observer receives from the event stream, for a known
\* or an unknown session id and any session state, has a type of the closed
\* set: the seven lifecycle types and the thirteen node-progress types.
C31_ClosedEventTypes ==
    \A s \in Ids : ReceivedTypes(obs[s]) \subseteq LifecycleTypes \cup NodeProgressTypes

\* The part of C31 that holds: the stream of a session that is in the map
\* delivers types of the closed set only.
KnownSessionTypes ==
    \A s \in Ids :
        (obs[s].out # <<>> /\ obs[s].out[1].type = "connected")
            => ReceivedTypes(obs[s]) \subseteq LifecycleTypes \cup NodeProgressTypes

\* A step of router A (_summarizer_router), and where it sent the run.
RouterAStep == node = "summarizer_router" /\ node' \in {"finder", "reviewer"}

RouterAContract ==
    RouterAStep =>
        /\ node' = "finder"
              <=> (needs_finder_retry /\ finder_retry_count < MaxFinderRetries)
        /\ node' = "finder" => finder_retry_count' = finder_retry_count + 1
        /\ node' = "reviewer" => finder_retry_count' = finder_retry_count

\* finder_retry_count counts the routes back to the finder: it moves only
\* when router A routes back, and then by one.
CountsRetries ==
    /\ finder_retry_count' >= finder_retry_count
    /\ finder_retry_count' # finder_retry_count
          => node = "summarizer_router" /\ node' = "finder"

\* C32: router A routes back to the finder only when the summarizer that
\* just ran set needs_finder_retry and finder_retry_count < 2, adding one to
\* finder_retry_count on each such route, and otherwise routes to the
\* reviewer; so the finder is re-entered through router A at most 2 times in
\* a run and finder_retry_count never exceeds 2.
C32_FinderRetryBounded ==
    /\ [](finder_retry_count <= MaxFinderRetries)
    /\ [][RouterAContract /\ CountsRetries]_vars

\* The part of C32 that holds: the routing decision, and the bound on the
\* stored counter.
RouterADecision ==
    /\ [](finder_retry_count <= MaxFinderRetries)
    /\ [][RouterAStep =>
            /\ node' = "finder"
                  <=> (needs_finder_retry /\ finder_retry_count < MaxFinderRetries)
            /\ node' = "finder" => finder_retry_count' <= finder_retry_count + 1]_vars
    /\ [][CountsRetries]_vars

\* A step of router B (_reviewer_router), and where it sent the run.
RouterBStep == node = "reviewer_router" /\ node' \in {"planner", "writer"}

RouterBContract ==
    /\ RouterBStep =>
          /\ iteration >= max_iterations => node' = "writer"
          /\ (iteration < max_iterations /\ ~has_gaps) => node' = "writer"
          /\ (iteration < max_iterations /\ has_gaps) => node' = "planner"
    /\ planner_runs' # planner_runs
          => node = "planner" /\ planner_runs' = planner_runs + 1

\* The writer is about to run.  The planner was re-entered only after a
\* review that reported gaps, so gaps in the last review are gaps in every
\* review: then the planner ran max_iterations times.  Without gaps in the
\* last review the planner ran once for that review and each one before.
WriterAfterReviews ==
    node = "writer" =>
        /\ has_gaps => planner_runs = max_iterations
        /\ planner_runs = iteration
        /\ planner_runs >= 1 /\ planner_runs <= max_iterations

\* C33: router B routes to the writer when iteration >= max_iterations, else
\* to the writer when the gap report has no gaps, else back to the planner;
\* so with gaps in every review the planner is invoked exactly
\* max_iterations times before the writer runs, and after a review without
\* gaps the writer runs next, with no planner invocation in between.
C33_ReviewerRouting == []WriterAfterReviews /\ [][RouterBContract]_vars

\* max_iterations = 2 and gaps in both reviews: the writer is about to run
\* after exactly 2 planner invocations.
C33_Witness ==
    /\ node = "writer" /\ has_gaps
    /\ max_iterations = 2 /\ planner_runs = 2

\* C34: when every node invocation returns, every graph run reaches END
\* after finitely many node executions, whatever the reviewer and the
\* summarizer report: no endless planner loop, no endless finder/summarizer
\* loop, and the writer runs once, as the last node.
C34_RunReachesEnd == <>(node = "END")

\* The parts of C34 that hold: the writer's step is the step to END, nothing
\* runs after END, and the planner runs at most max_iterations times.
WriterLast ==
    /\ [][(node = "writer" => node' = "END") /\ (node' = "END" => node = "writer")
          /\ node # "END"]_vars
    /\ [](planner_runs <= max_iterations)

\* C35: write_report with at least one finding makes at most two LLM calls:
\* the repair call is made exactly when the first output does not parse as
\* a JSON object, the raw-text fallback is used exactly when the repair
\* output does not parse either (or the repair call fails), and when the
\* repair output parses the report is the repaired one with no error field.
FirstUnparsed == ~ParseJsonPayload(writing.first.content)

RepairParses ==
    ~writing.repair.raises /\ ParseJsonPayload(writing.repair.content)

C35_RepairThenFallback ==
    (writing.called /\ writing.findings >= 1 /\ ~writing.first.raises) =>
        /\ writing.llm_calls <= 2
        /\ writing.repair_called <=> FirstUnparsed
        /\ writing.final_report.kind = "fallback" <=>
               (FirstUnparsed /\ ~RepairParses)
        /\ (FirstUnparsed /\ RepairParses) =>
               /\ writing.final_report.kind = "repaired"
               /\ ~writing.final_report.error

\* What write_report keeps: at most two LLM calls, the second one exactly
\* for a first output that is not empty and does not parse, and a report of
\* the repair output only after that call came back.
WriteReportCalls ==
    (writing.called /\ writing.findings >= 1 /\ ~writing.first.raises) =>
        /\ writing.llm_calls <= 2
        /\ writing.repair_called <=>
               (FirstUnparsed /\ writing.first.content # <<>>)
        /\ writing.llm_calls = 2 <=> writing.repair_called
        /\ writing.final_report.kind = "repaired" =>
               (writing.repair_called /\ RepairParses)

\* C39: a session ends as completed only if the writer produced a real
\* report: when write_report returns its error report (no findings, or the
\* writer's LLM call failed), the session does not end as completed.
C39_ErrorReportNotCompleted ==
    (writing.called /\ writing.final_report.kind = "error") =>
        writing.terminal # "completed"

\* What _writer_node and _run_graph do with the report: the node reports
\* "completed" whatever write_report returned, and a non-empty dict counts
\* as a final report.
AnyReportCompletes ==
    writing.called =>
        /\ writing.status = "completed"
        /\ writing.terminal = "completed"

\* C36: within one session the durable log preserves emission order:
\* research_started stands nowhere but first in the log, and no node event
\* stands behind a terminal event, which the executor emits after the graph
\* has returned.
C36_LogInEmissionOrder ==
    \A s \in Ids :
        LET log == ListEventsSync(events[s])
        IN /\ \A i \in 2..Len(log) : log[i].type # "research_started"
           /\ \A i, j \in 1..Len(log) :
                 (i < j /\ log[i].type \in TerminalTypes) =>
                     log[j].type \in TerminalTypes

\* The session is in neither the store nor the map.
Absent(s) == ~db[s].present /\ events[s] = <<>> /\ s \notin inMap

\* delete_session has returned 'deleted' for s in this process: a delete ran
\* on the row that start_research wrote before it created the executor.
DeletedAfterStart(s) == s \in wiped /\ exec[s] # "none" /\ ~db[s].present

\* C37: once delete_session has returned 'deleted' for a session, the
\* session stays absent: no later step of an operation in flight brings back
\* a row or an event of it, or its entry of the map.
C37_DeletedStaysAbsent ==
    [][\A s \in Ids : (DeletedAfterStart(s) /\ Absent(s)) => Absent(s)']_vars

\* What delete_session leaves at the moment it returns 'deleted': no row and
\* no entry of the map.
DeletedAtReturn ==
    \A s \in Ids :
        lastOp = Returned("delete", s, "deleted") =>
            ~db[s].present /\ s \notin inMap

\* C38: with two stop_research calls at once on a running session, the
\* second made while the first awaits the cancelled executor, an executor
\* that had logged research_started finishes with exactly one
\* research_stopped event in the log: the second cancellation does not abort
\* the writes of the executor's handler.
StoppedEvents(s) ==
    SelectSeq(events[s], LAMBDA e : e.type = "research_stopped")

ExecutorSettled(s) ==
    /\ exec[s] = "done"
    /\ \A e \in orphans : e.job.sid # s
    /\ \A i \in 1..Len(lockq) : lockq[i].co # ExecCo(s)

C38_TwoStopsOneStoppedEvent ==
    \A s \in Ids :
        (/\ \A k \in StopCallers : stopper[s][k] # "idle"
         /\ "research_started" \in Types(events[s])
         /\ ExecutorSettled(s))
            => Len(StoppedEvents(s)) = 1

\* What two stop_research calls at once do leave: once both have returned
\* and the store is at rest, a row with status 'stopped' and is_stopped.
TwoStopsRow ==
    \A s \in Ids :
        (/\ lastOp = Returned("stop", s, "true")
         /\ \A k \in StopCallers : stopper[s][k] = "idle"
         /\ exec[s] = "done" /\ orphans = {} /\ lockq = <<>>)
            => /\ db[s].present
               /\ db[s].status = "stopped"
               /\ db[s].is_stopped

\* The progress event a summarizer execution emitted: _summarizer_node emits
\* summarizer_retry where it sets needs_finder_retry and summarizer_complete
\* where it clears it.
SummarizerEvent ==
    IF needs_finder_retry THEN "summarizer_retry" ELSE "summarizer_complete"

EventAgreesWithRoute ==
    RouterAStep =>
        /\ SummarizerEvent = "summarizer_retry" => node' = "finder"
        /\ SummarizerEvent = "summarizer_complete" => node' = "reviewer"

CompleteMeansReviewer ==
    [][RouterAStep =>
          /\ SummarizerEvent = "summarizer_complete" => node' = "reviewer"
          /\ node' = "finder" => SummarizerEvent = "summarizer_retry"]_vars
====
